---- MODULE Spec2Model ----
(***************************************************************************)
(* A model of scikit-hep/vector's coordinate abstraction: keyword          *)
(* construction (vector.obj), the coordinate converter, the dimension and  *)
(* flavor resolver, and the binary operations built on them.               *)
(*                                                                         *)
(* Numbers.  A coordinate value is a float in the library.  Here it is a   *)
(* tagged value: a finite integer, NaN, or a signed infinity, with         *)
(* IEEE-like arithmetic (NaN propagates, NaN # NaN).  Lengths are          *)
(* integers; roots and quotients round.  Angles are codes into tables of   *)
(* exact trigonometric values:                                             *)
(*   phi   code k in -5..6 : the direction (CosTab, SinTab)[k] / 5, the    *)
(*         twelve directions of the 3-4-5 triangle and the axes, so that   *)
(*         code 2 is atan2(4, 3) = 0.9272952180016122 and code 3 is pi/2;  *)
(*   theta code k in 0..6  : the same directions in the (z, rho) plane;    *)
(*   eta   code k in -2..2 : sinh(eta) = cot(theta), theta code 3 - k.     *)
(* A conversion between kinds is computed through these tables, so it is   *)
(* never the identity and a round trip may round.                          *)
(***************************************************************************)
EXTENDS Integers, Sequences, FiniteSets, TLC

VARIABLES kw, a, b, op, out, behavior, with_name, vs

vars == <<kw, a, b, op, out, behavior, with_name, vs>>

(***************************************************************************)
(* Bounds of the model.                                                    *)
(***************************************************************************)
\* the largest number of keyword arguments in one vector.obj call
MaxNames == 5
\* the number of sample points the operands' stored values are drawn from
MaxPoint == 4
\* the largest number of vectors in one collection
MaxLen == 3
\* the largest number of operations applied one after another
MaxSteps == 3

(***************************************************************************)
(* Floating-point values.                                                  *)
(***************************************************************************)
Fin(n) == [c |-> "fin", v |-> n]
NaN == [c |-> "nan", v |-> 0]
PosInf == [c |-> "inf", v |-> 1]
NegInf == [c |-> "inf", v |-> -1]

IsFin(u) == u.c = "fin"
IsNaN(u) == u.c = "nan"
IsInf(u) == u.c = "inf"

Sgn(n) == IF n > 0 THEN 1 ELSE IF n < 0 THEN -1 ELSE 0
Abs(n) == IF n < 0 THEN -n ELSE n
\* the sign of a value that is not NaN
FSign(u) == IF IsInf(u) THEN u.v ELSE Sgn(u.v)
Inf(s) == IF s > 0 THEN PosInf ELSE NegInf

\* n / d rounded to the nearest integer, d > 0
RDiv(n, d) == IF n >= 0 THEN (2 * n + d) \div (2 * d) ELSE -((2 * (-n) + d) \div (2 * d))

RECURSIVE SqrtFrom(_, _)
SqrtFrom(n, r) == IF (r + 1) * (r + 1) > n THEN r ELSE SqrtFrom(n, r + 1)
\* the square root of n >= 0, rounded down
ISqrt(n) == SqrtFrom(n, 0)

FNeg(u) == IF IsNaN(u) THEN NaN ELSE IF IsInf(u) THEN Inf(-u.v) ELSE Fin(-u.v)

FAdd(u, w) ==
    IF IsNaN(u) \/ IsNaN(w) THEN NaN
    ELSE IF IsInf(u) /\ IsInf(w) THEN (IF u.v = w.v THEN u ELSE NaN)
    ELSE IF IsInf(u) THEN u
    ELSE IF IsInf(w) THEN w
    ELSE Fin(u.v + w.v)

FSub(u, w) == FAdd(u, FNeg(w))

FMul(u, w) ==
    IF IsNaN(u) \/ IsNaN(w) THEN NaN
    ELSE IF IsInf(u) \/ IsInf(w)
         THEN (IF FSign(u) = 0 \/ FSign(w) = 0 THEN NaN ELSE Inf(FSign(u) * FSign(w)))
    ELSE Fin(u.v * w.v)

\* u * num / den for an exact table ratio num / den (den = 0: a pole)
FScale(u, num, den) ==
    IF IsNaN(u) THEN NaN
    ELSE IF den = 0
         THEN (IF FSign(u) = 0 \/ num = 0 THEN NaN ELSE Inf(FSign(u) * Sgn(num)))
    ELSE IF IsInf(u) THEN (IF num = 0 THEN NaN ELSE Inf(u.v * Sgn(num) * Sgn(den)))
    ELSE Fin(RDiv(u.v * num * Sgn(den), Abs(den)))

FSqrt(u) ==
    IF IsNaN(u) THEN NaN
    ELSE IF IsInf(u) THEN (IF u.v > 0 THEN PosInf ELSE NaN)
    ELSE IF u.v < 0 THEN NaN
    ELSE Fin(ISqrt(u.v))

\* IEEE equality: NaN equals nothing
FEq(u, w) == ~IsNaN(u) /\ ~IsNaN(w) /\ u = w

(***************************************************************************)
(* Angle tables.                                                           *)
(***************************************************************************)
PhiCodes == -5..6
ThetaCodes == 0..6
EtaCodes == -2..2

\* 5 cos(phi) and 5 sin(phi) for phi code k, k = -5..6
CosTab == <<-4, -3, 0, 3, 4, 5, 4, 3, 0, -3, -4, -5>>
SinTab == <<-3, -4, -5, -4, -3, 0, 3, 4, 5, 4, 3, 0>>
Cos5(k) == CosTab[k + 6]
Sin5(k) == SinTab[k + 6]

\* atan2(y, x) on integers: the code of the nearest table direction
Atan2Code(y, x) ==
    IF x = 0 /\ y = 0 THEN 0
    ELSE LET score(k) == Cos5(k) * x + Sin5(k) * y
             best == {k \in PhiCodes : \A j \in PhiCodes : score(k) >= score(j)}
         IN CHOOSE k \in best : \A j \in best : Abs(k) < Abs(j) \/ (Abs(k) = Abs(j) /\ k >= j)

(***************************************************************************)
(* Coordinate kinds, field names and momentum synonyms.                    *)
(***************************************************************************)
AzKinds == {"XY", "RhoPhi"}
LoKinds == {"Z", "Theta", "Eta"}
TeKinds == {"T", "Tau"}

\* the fields a kind stores
FieldsOf(kind) ==
    CASE kind = "XY" -> {"x", "y"}
      [] kind = "RhoPhi" -> {"rho", "phi"}
      [] kind = "Z" -> {"z"}
      [] kind = "Theta" -> {"theta"}
      [] kind = "Eta" -> {"eta"}
      [] kind = "T" -> {"t"}
      [] kind = "Tau" -> {"tau"}
      [] OTHER -> {}

GenericNames == {"x", "y", "rho", "phi", "z", "theta", "eta", "t", "tau"}
MomentumNames == {"px", "py", "pt", "pz", "E", "e", "energy", "M", "m", "mass"}
\* every keyword the constructor is tried with; "w" is a name it does not know
Names == GenericNames \cup MomentumNames \cup {"w"}

\* the geometric name a keyword stands for
GenericOf(n) ==
    CASE n = "px" -> "x"
      [] n = "py" -> "y"
      [] n = "pt" -> "rho"
      [] n = "pz" -> "z"
      [] n \in {"E", "e", "energy"} -> "t"
      [] n \in {"M", "m", "mass"} -> "tau"
      [] OTHER -> n

(***************************************************************************)
(* Vectors.  A vector is its class (dim, mom) with its coordinate objects  *)
(* (az, lo, te: the kinds) and the values they store (f).                  *)
(***************************************************************************)
NoFields == [n \in {} |-> NaN]
NoVec == [dim |-> 0, az |-> "None", lo |-> "None", te |-> "None", mom |-> FALSE, f |-> NoFields]

\* the result of a call: a vector, a number, a truth value or a raised error
NoOut == [kind |-> "none", vec |-> NoVec, val |-> NaN, flag |-> FALSE, err |-> "", dim |-> 0]
VecOut(v) == [NoOut EXCEPT !.kind = "vector", !.vec = v, !.dim = v.dim]
NumOut(u, d) == [NoOut EXCEPT !.kind = "number", !.val = u, !.dim = d]
BoolOut(p, d) == [NoOut EXCEPT !.kind = "bool", !.flag = p, !.dim = d]
ErrOut(e) == [NoOut EXCEPT !.kind = "error", !.err = e]

\* no registry of array behaviors and no record names: the vectors are objects
NoBehavior == [classes |-> [n \in {} |-> "None"], ufuncs |-> {}]
NoNames == [a |-> "None", b |-> "None", out |-> "None"]

\* the values of the fields in S, taken from d
Take(d, S) == [n \in S |-> d[n]]

(***************************************************************************)
(* vector.obj: the keyword constructor.                                    *)
(***************************************************************************)
\* the supplied values under their geometric names
GenericCoordinates(kwargs) ==
    [g \in {GenericOf(n) : n \in DOMAIN kwargs} |->
        kwargs[CHOOSE n \in DOMAIN kwargs : GenericOf(n) = g]]

\* HasDuplicates with the check left out: a repeated coordinate is accepted
HasDuplicatesNever(kwargs) == FALSE

\* two supplied keywords that name the same coordinate
HasDuplicates(kwargs) ==
    \E n1, n2 \in DOMAIN kwargs : n1 # n2 /\ GenericOf(n1) = GenericOf(n2)

\* IsMomentum asking every keyword to be a momentum name
IsMomentumAll(kwargs) == \A n \in DOMAIN kwargs : n \in MomentumNames

IsMomentum(kwargs) == \E n \in DOMAIN kwargs : n \in MomentumNames

AzimuthalOf(g) ==
    IF {"x", "y"} \subseteq DOMAIN g THEN "XY"
    ELSE IF {"rho", "phi"} \subseteq DOMAIN g THEN "RhoPhi"
    ELSE "None"

LongitudinalOf(g) ==
    IF "z" \in DOMAIN g THEN "Z"
    ELSE IF "theta" \in DOMAIN g THEN "Theta"
    ELSE IF "eta" \in DOMAIN g THEN "Eta"
    ELSE "None"

TemporalOf(g) ==
    IF "t" \in DOMAIN g THEN "T"
    ELSE IF "tau" \in DOMAIN g THEN "Tau"
    ELSE "None"

Obj(kwargs) ==
    LET g == GenericCoordinates(kwargs)
        az == AzimuthalOf(g)
        lo == LongitudinalOf(g)
        te == TemporalOf(g)
        used == FieldsOf(az) \cup FieldsOf(lo) \cup FieldsOf(te)
        rest == DOMAIN g \ used
        mk(d, l, t) == VecOut([dim |-> d, az |-> az, lo |-> l, te |-> t,
                               mom |-> IsMomentum(kwargs), f |-> Take(g, used)])
    IN IF HasDuplicates(kwargs) THEN ErrOut("TypeError")
       ELSE IF rest # {} THEN ErrOut("TypeError")
       ELSE IF az # "None" /\ lo = "None" /\ te = "None" THEN mk(2, "None", "None")
       ELSE IF az # "None" /\ lo # "None" /\ te = "None" THEN mk(3, lo, "None")
       ELSE IF az # "None" /\ lo # "None" /\ te # "None" THEN mk(4, lo, te)
       ELSE ErrOut("TypeError")

(***************************************************************************)
(* The coordinate converter: any coordinate of a vector, from whatever     *)
(* kinds it stores.  A coordinate the vector stores is returned as stored. *)
(***************************************************************************)
\* cos and sin of a stored phi, over 5
CosOf(u) == IF IsFin(u) THEN Cos5(u.v) ELSE 0
SinOf(u) == IF IsFin(u) THEN Sin5(u.v) ELSE 0

\* atan2(y, x) of two values
FAtan2(y, x) ==
    IF IsNaN(y) \/ IsNaN(x) THEN NaN
    ELSE IF IsInf(y) \/ IsInf(x)
         THEN Fin(Atan2Code(IF IsInf(y) THEN y.v ELSE 0, IF IsInf(x) THEN x.v ELSE 0))
    ELSE Fin(Atan2Code(y.v, x.v))

CoordX(v) ==
    IF v.az = "XY" THEN v.f.x
    ELSE IF IsFin(v.f.phi) THEN FScale(v.f.rho, CosOf(v.f.phi), 5) ELSE NaN

CoordY(v) ==
    IF v.az = "XY" THEN v.f.y
    ELSE IF IsFin(v.f.phi) THEN FScale(v.f.rho, SinOf(v.f.phi), 5) ELSE NaN

CoordRho2(v) ==
    IF v.az = "XY" THEN FAdd(FMul(v.f.x, v.f.x), FMul(v.f.y, v.f.y))
    ELSE FMul(v.f.rho, v.f.rho)

CoordRho(v) == IF v.az = "XY" THEN FSqrt(CoordRho2(v)) ELSE v.f.rho

CoordPhi(v) == IF v.az = "XY" THEN FAtan2(v.f.y, v.f.x) ELSE v.f.phi

\* cot(theta) = sinh(eta) of a stored angle, as a ratio <<num, den>>
CotOfTheta(u) == <<Cos5(u.v), Sin5(u.v)>>
SinhOfEta(u) == <<Cos5(3 - u.v), Sin5(3 - u.v)>>

CoordZ(v) ==
    CASE v.lo = "Z" -> v.f.z
      [] v.lo = "Theta" ->
           IF IsFin(v.f.theta)
           THEN FScale(CoordRho(v), CotOfTheta(v.f.theta)[1], CotOfTheta(v.f.theta)[2])
           ELSE NaN
      [] v.lo = "Eta" ->
           IF IsFin(v.f.eta)
           THEN FScale(CoordRho(v), SinhOfEta(v.f.eta)[1], SinhOfEta(v.f.eta)[2])
           ELSE FMul(CoordRho(v), v.f.eta)

CoordTheta(v) ==
    CASE v.lo = "Theta" -> v.f.theta
      [] v.lo = "Z" -> FAtan2(CoordRho(v), v.f.z)
      [] v.lo = "Eta" ->
           IF IsFin(v.f.eta) THEN Fin(3 - v.f.eta.v)
           ELSE IF IsNaN(v.f.eta) THEN NaN
           ELSE IF v.f.eta.v > 0 THEN Fin(0) ELSE Fin(6)

\* the eta of a polar angle code
EtaOfThetaCode(k) == IF k = 0 THEN PosInf ELSE IF k = 6 THEN NegInf ELSE Fin(3 - k)

\* CoordEta with the infinities on the axis replaced by large numbers
CoordEtaNanToNum(v) ==
    CASE v.lo = "Eta" -> v.f.eta
      [] v.lo = "Theta" -> IF IsFin(v.f.theta) THEN EtaOfThetaCode(v.f.theta.v) ELSE NaN
      [] v.lo = "Z" ->
           LET rho == CoordRho(v)
               z == v.f.z
           IN IF IsNaN(z) THEN NaN
              ELSE IF IsNaN(rho) THEN Fin(0)
              ELSE IF FSign(rho) = 0 THEN Fin(1000 * FSign(z))
              ELSE IF IsInf(z) THEN (IF IsInf(rho) THEN Fin(0) ELSE Fin(1000 * z.v))
              ELSE IF IsInf(rho) THEN Fin(0)
              ELSE LET k == Atan2Code(rho.v, z.v)
                   IN Fin(IF k = 0 THEN 2 ELSE IF k = 6 THEN -2 ELSE 3 - k)

CoordEta(v) ==
    CASE v.lo = "Eta" -> v.f.eta
      [] v.lo = "Theta" -> IF IsFin(v.f.theta) THEN EtaOfThetaCode(v.f.theta.v) ELSE NaN
      [] v.lo = "Z" ->
           LET rho == CoordRho(v)
               z == v.f.z
           IN IF IsNaN(z) THEN NaN
              ELSE IF IsNaN(rho) THEN Fin(0)
              ELSE IF FSign(rho) = 0
                   THEN (IF FSign(z) > 0 THEN PosInf ELSE IF FSign(z) < 0 THEN NegInf ELSE Fin(0))
              ELSE IF IsInf(z) THEN (IF IsInf(rho) THEN Fin(0) ELSE Inf(z.v))
              ELSE IF IsInf(rho) THEN Fin(0)
              ELSE LET k == Atan2Code(rho.v, z.v)
                   IN Fin(IF k = 0 THEN 2 ELSE IF k = 6 THEN -2 ELSE 3 - k)

CoordMag2(v) == FAdd(CoordRho2(v), FMul(CoordZ(v), CoordZ(v)))

\* x with the sign of s
CopySign(x, s) == IF IsNaN(x) \/ IsNaN(s) THEN NaN ELSE IF FSign(s) < 0 THEN FNeg(x) ELSE x

FMax0(u) == IF IsNaN(u) THEN NaN ELSE IF FSign(u) < 0 THEN Fin(0) ELSE u
FAbs(u) == IF IsNaN(u) THEN NaN ELSE IF FSign(u) < 0 THEN FNeg(u) ELSE u

CoordTau2(v) ==
    IF v.te = "Tau" THEN FMul(v.f.tau, v.f.tau)
    ELSE FSub(FMul(v.f.t, v.f.t), CoordMag2(v))

\* CoordT taking every stored tau as timelike
CoordTTimelike(v) ==
    IF v.te = "T" THEN v.f.t
    ELSE FSqrt(FAdd(FMul(v.f.tau, v.f.tau), CoordMag2(v)))

CoordT(v) ==
    IF v.te = "T" THEN v.f.t
    ELSE FSqrt(FMax0(FAdd(CopySign(FMul(v.f.tau, v.f.tau), v.f.tau), CoordMag2(v))))

\* CoordTau without the sign of tau2
CoordTauUnsigned(v) ==
    IF v.te = "Tau" THEN v.f.tau
    ELSE FSqrt(FAbs(CoordTau2(v)))

CoordTau(v) ==
    IF v.te = "Tau" THEN v.f.tau
    ELSE CopySign(FSqrt(FAbs(CoordTau2(v))), CoordTau2(v))

\* the value of the coordinate called g
Coord(v, g) ==
    CASE g = "x" -> CoordX(v)
      [] g = "y" -> CoordY(v)
      [] g = "rho" -> CoordRho(v)
      [] g = "phi" -> CoordPhi(v)
      [] g = "z" -> CoordZ(v)
      [] g = "theta" -> CoordTheta(v)
      [] g = "eta" -> CoordEta(v)
      [] g = "t" -> CoordT(v)
      [] g = "tau" -> CoordTau(v)

(***************************************************************************)
(* Building a result: the class of a result follows from the coordinate    *)
(* kinds the compute function returns.                                     *)
(***************************************************************************)
\* WrapResult that never builds a 2D class
WrapResultSpatial(mom, az, lo, te, f) ==
    [dim |-> IF te = "None" THEN 3 ELSE 4,
     az |-> az, lo |-> lo, te |-> te, mom |-> mom,
     f |-> Take(f, FieldsOf(az) \cup FieldsOf(lo) \cup FieldsOf(te))]

WrapResult(mom, az, lo, te, f) ==
    [dim |-> IF lo = "None" THEN 2 ELSE IF te = "None" THEN 3 ELSE 4,
     az |-> az, lo |-> lo, te |-> te, mom |-> mom,
     f |-> Take(f, FieldsOf(az) \cup FieldsOf(lo) \cup FieldsOf(te))]

\* v in the coordinate kinds az, lo, te (its first slices only, where fewer are asked for)
ToKinds(v, az, lo, te) ==
    WrapResult(v.mom, az, lo, te,
               [g \in FieldsOf(az) \cup FieldsOf(lo) \cup FieldsOf(te) |-> Coord(v, g)])

(***************************************************************************)
(* The dimension and flavor resolver.                                      *)
(***************************************************************************)
\* ComputeModuleOf answering planar for every pair
ComputeModuleOfPlanar(v1, v2, nontemporal) == 2

\* the compute module for a function of two vectors, named by its dimension
\* (2 planar, 3 spatial, 4 lorentz): the one of the smaller dimension
ComputeModuleOf(v1, v2, nontemporal) ==
    LET d == IF v1.dim < v2.dim THEN v1.dim ELSE v2.dim
    IN IF nontemporal /\ d > 3 THEN 3 ELSE d

\* FlavorOf asking both operands to be momentum
FlavorOfBoth(v1, v2) == v1.mom /\ v2.mom

\* momentum-ness is infectious
FlavorOf(v1, v2) == v1.mom \/ v2.mom

\* the kinds of the first d dimensions of v
KindsAt(v, d) ==
    <<v.az, IF d >= 3 THEN v.lo ELSE "None", IF d >= 4 THEN v.te ELSE "None">>

\* to_Vector2D, to_Vector3D: v cut down to its first d dimensions, d <= v.dim
Project(v, d) ==
    WrapResult(v.mom, KindsAt(v, d)[1], KindsAt(v, d)[2], KindsAt(v, d)[3], v.f)

Cartesian(d) == <<"XY", IF d >= 3 THEN "Z" ELSE "None", IF d >= 4 THEN "T" ELSE "None">>

CartesianFields(d) ==
    FieldsOf(Cartesian(d)[1]) \cup FieldsOf(Cartesian(d)[2]) \cup FieldsOf(Cartesian(d)[3])

\* ReturnKinds taking the first operand's kinds
ReturnKindsOfFirst(v1, v2, d) == KindsAt(v1, d)

\* the kinds a sum or difference is returned in: the operands' own where they
\* agree, Cartesian where they differ
ReturnKinds(v1, v2, d) ==
    IF KindsAt(v1, d) = KindsAt(v2, d) THEN KindsAt(v1, d) ELSE Cartesian(d)

(***************************************************************************)
(* The binary operations.                                                  *)
(***************************************************************************)
Add(v1, v2) ==
    LET d == ComputeModuleOf(v1, v2, FALSE)
        k == ReturnKinds(v1, v2, d)
        c == Cartesian(d)
        sum == WrapResult(FlavorOf(v1, v2), c[1], c[2], c[3],
                          [g \in CartesianFields(d) |-> FAdd(Coord(v1, g), Coord(v2, g))])
    IN IF k = c THEN sum ELSE ToKinds(sum, k[1], k[2], k[3])

\* Subtract in the larger dimension, a missing coordinate taken as zero
SubtractImputing(v1, v2) ==
    LET d == IF v1.dim > v2.dim THEN v1.dim ELSE v2.dim
        c == Cartesian(d)
        has(v, g) == g \in {"x", "y"} \/ (g = "z" /\ v.dim >= 3) \/ (g = "t" /\ v.dim >= 4)
        get(v, g) == IF has(v, g) THEN Coord(v, g) ELSE Fin(0)
    IN WrapResult(FlavorOf(v1, v2), c[1], c[2], c[3],
                  [g \in CartesianFields(d) |-> FSub(get(v1, g), get(v2, g))])

Subtract(v1, v2) ==
    LET d == ComputeModuleOf(v1, v2, FALSE)
        k == ReturnKinds(v1, v2, d)
        c == Cartesian(d)
        diff == WrapResult(FlavorOf(v1, v2), c[1], c[2], c[3],
                           [g \in CartesianFields(d) |-> FSub(Coord(v1, g), Coord(v2, g))])
    IN IF k = c THEN diff ELSE ToKinds(diff, k[1], k[2], k[3])

\* the dot product in the transverse plane
PlanarDot(v1, v2) ==
    IF v1.az = "RhoPhi" /\ v2.az = "RhoPhi"
    THEN IF IsFin(v1.f.phi) /\ IsFin(v2.f.phi)
         THEN FScale(FMul(v1.f.rho, v2.f.rho),
                     CosOf(v1.f.phi) * CosOf(v2.f.phi) + SinOf(v1.f.phi) * SinOf(v2.f.phi), 25)
         ELSE NaN
    ELSE FAdd(FMul(CoordX(v1), CoordX(v2)), FMul(CoordY(v1), CoordY(v2)))

Dot(v1, v2) ==
    LET d == ComputeModuleOf(v1, v2, FALSE)
        spatial == IF d = 2 THEN PlanarDot(v1, v2)
                   ELSE FAdd(PlanarDot(v1, v2), FMul(CoordZ(v1), CoordZ(v2)))
    IN IF d = 4 THEN FSub(FMul(CoordT(v1), CoordT(v2)), spatial) ELSE spatial

\* Equal comparing the Cartesian coordinates instead of the stored fields
EqualCartesian(v1, v2) ==
    LET d == ComputeModuleOf(v1, v2, FALSE)
    IN \A g \in CartesianFields(d) : FEq(Coord(v1, g), Coord(v2, g))

\* the fields the first d dimensions of v store
StoredFields(v, d) ==
    FieldsOf(KindsAt(v, d)[1]) \cup FieldsOf(KindsAt(v, d)[2]) \cup FieldsOf(KindsAt(v, d)[3])

Equal(v1, v2) ==
    LET d == ComputeModuleOf(v1, v2, FALSE)
    IN /\ KindsAt(v1, d) = KindsAt(v2, d)
       /\ \A g \in StoredFields(v1, d) : FEq(v1.f[g], v2.f[g])

NotEqual(v1, v2) == ~Equal(v1, v2)

\* numpy.isclose with the default tolerances, which lie below the model's resolution
Close(u, w) == FEq(u, w)

IsClose(v1, v2) ==
    LET d == ComputeModuleOf(v1, v2, FALSE)
    IN \A g \in CartesianFields(d) : Close(Coord(v1, g), Coord(v2, g))

\* Cross passing the first operand's temporal coordinate through
CrossKeepsTemporal(v1, v2) ==
    LET te == IF v1.dim = 4 THEN "T" ELSE "None"
    IN WrapResult(FlavorOf(v1, v2), "XY", "Z", te,
                  [g \in {"x", "y", "z", "t"} |->
                     CASE g = "x" -> FSub(FMul(CoordY(v1), CoordZ(v2)), FMul(CoordZ(v1), CoordY(v2)))
                       [] g = "y" -> FSub(FMul(CoordZ(v1), CoordX(v2)), FMul(CoordX(v1), CoordZ(v2)))
                       [] g = "z" -> FSub(FMul(CoordX(v1), CoordY(v2)), FMul(CoordY(v1), CoordX(v2)))
                       [] g = "t" -> IF v1.dim = 4 THEN CoordT(v1) ELSE NaN])

\* the cross product with its second component negated
CrossLeftHanded(v1, v2) ==
    LET c == Cartesian(ComputeModuleOf(v1, v2, TRUE))
    IN WrapResult(FlavorOf(v1, v2), c[1], c[2], c[3],
                  [g \in {"x", "y", "z"} |->
                     CASE g = "x" -> FSub(FMul(CoordY(v1), CoordZ(v2)), FMul(CoordZ(v1), CoordY(v2)))
                       [] g = "y" -> FSub(FMul(CoordX(v1), CoordZ(v2)), FMul(CoordZ(v1), CoordX(v2)))
                       [] g = "z" -> FSub(FMul(CoordX(v1), CoordY(v2)), FMul(CoordY(v1), CoordX(v2)))])

Cross(v1, v2) ==
    LET x1 == CoordX(v1)
        y1 == CoordY(v1)
        z1 == CoordZ(v1)
        x2 == CoordX(v2)
        y2 == CoordY(v2)
        z2 == CoordZ(v2)
        c == Cartesian(ComputeModuleOf(v1, v2, TRUE))
    IN WrapResult(FlavorOf(v1, v2), c[1], c[2], c[3],
                  [g \in {"x", "y", "z"} |->
                     CASE g = "x" -> FSub(FMul(y1, z2), FMul(z1, y2))
                       [] g = "y" -> FSub(FMul(z1, x2), FMul(x1, z2))
                       [] g = "z" -> FSub(FMul(x1, y2), FMul(y1, x2))])

(***************************************************************************)
(* The inputs the model is run on.                                         *)
(***************************************************************************)
\* the value sample point p gives the coordinate called g
SampleValue(g, p) ==
    CASE p = 1 -> (CASE g = "x" -> 1 [] g = "y" -> 2 [] g = "z" -> 3 [] g = "t" -> 10
                     [] g = "rho" -> 10 [] g = "phi" -> 1 [] g = "theta" -> 3
                     [] g = "eta" -> 0 [] g = "tau" -> 5 [] OTHER -> 0)
      [] p = 2 -> (CASE g = "x" -> 3 [] g = "y" -> 4 [] g = "z" -> -2 [] g = "t" -> 10
                     [] g = "rho" -> 5 [] g = "phi" -> 2 [] g = "theta" -> 2
                     [] g = "eta" -> -1 [] g = "tau" -> 0 [] OTHER -> 0)
      [] p = 3 -> (CASE g = "x" -> 1 [] g = "y" -> 0 [] g = "z" -> 2 [] g = "t" -> 1
                     [] g = "rho" -> 0 [] g = "phi" -> 6 [] g = "theta" -> 0
                     [] g = "eta" -> 2 [] g = "tau" -> -3 [] OTHER -> 0)
      [] p = 4 -> (CASE g = "x" -> 0 [] g = "y" -> 0 [] g = "z" -> 0 [] g = "t" -> 0
                     [] g = "rho" -> 5 [] g = "phi" -> -3 [] g = "theta" -> 6
                     [] g = "eta" -> -2 [] g = "tau" -> 1 [] OTHER -> 0)
      [] OTHER -> (CASE g = "x" -> -p [] g = "y" -> p [] g = "z" -> -1 [] g = "t" -> p
                     [] g = "rho" -> p [] g = "phi" -> 4 [] g = "theta" -> 5
                     [] g = "eta" -> 1 [] g = "tau" -> p [] OTHER -> 0)

\* the keyword arguments with the names S and the values of sample point p
Kwargs(S, p) == [n \in S |-> Fin(SampleValue(GenericOf(n), p))]

NoKwargs == [n \in {} |-> NaN]

RECURSIVE SubsetsUpTo(_, _)
\* the subsets of S with at most k elements
SubsetsUpTo(S, k) ==
    IF k = 0 THEN {{}}
    ELSE LET smaller == SubsetsUpTo(S, k - 1)
         IN smaller \cup {T \cup {n} : T \in smaller, n \in S}

KeywordSets == SubsetsUpTo(Names, MaxNames)

(***************************************************************************)
(* Construction: a call of vector.obj with any set of keywords.            *)
(***************************************************************************)
InitObj ==
    /\ kw \in {Kwargs(S, p) : S \in KeywordSets, p \in 1..MaxPoint}
    /\ a = NoVec
    /\ b = NoVec
    /\ op = "none"
    /\ out = NoOut
    /\ behavior = NoBehavior
    /\ with_name = NoNames
    /\ vs = <<>>

ObjCall ==
    /\ op = "none"
    /\ op' = "obj"
    /\ out' = Obj(kw)
    /\ UNCHANGED <<kw, a, b, behavior, with_name, vs>>

NextObj == ObjCall

SpecObj == InitObj /\ [][NextObj]_vars

(***************************************************************************)
(* Operations: two constructed vectors and one call on them.               *)
(***************************************************************************)
\* the momentum spelling of a geometric name
MomentumSpelling(g) ==
    CASE g = "x" -> "px"
      [] g = "y" -> "py"
      [] g = "rho" -> "pt"
      [] g = "z" -> "pz"
      [] g = "t" -> "E"
      [] g = "tau" -> "M"
      [] OTHER -> g

\* the keyword sets of the operands: every coordinate system, in both spellings
OperandNames ==
    LET geo == {FieldsOf(az) \cup FieldsOf(lo) \cup FieldsOf(te) :
                   az \in AzKinds, lo \in LoKinds \cup {"None"}, te \in TeKinds \cup {"None"}}
    IN {S \in geo : Obj(Kwargs(S, 1)).kind = "vector"}
       \cup {{MomentumSpelling(g) : g \in S} : S \in {T \in geo : Obj(Kwargs(T, 1)).kind = "vector"}}

Operands == {Obj(Kwargs(S, p)).vec : S \in OperandNames, p \in 1..MaxPoint}

\* the operands of the documentation's a + b
ExampleOperands ==
    {Obj([x |-> Fin(2), y |-> Fin(1)]).vec, Obj([rho |-> Fin(3), phi |-> Fin(0)]).vec}

Init ==
    /\ kw = NoKwargs
    /\ a \in Operands \cup ExampleOperands
    /\ b \in Operands \cup ExampleOperands
    /\ op = "none"
    /\ out = NoOut
    /\ behavior = NoBehavior
    /\ with_name = NoNames
    /\ vs = <<>>

AddCall ==
    /\ op = "none" /\ a.dim > 0
    /\ op' = "add"
    /\ out' = VecOut(Add(a, b))
    /\ UNCHANGED <<kw, a, b, behavior, with_name, vs>>

SubtractCall ==
    /\ op = "none" /\ a.dim > 0
    /\ op' = "subtract"
    /\ out' = VecOut(Subtract(a, b))
    /\ UNCHANGED <<kw, a, b, behavior, with_name, vs>>

DotCall ==
    /\ op = "none" /\ a.dim > 0
    /\ op' = "dot"
    /\ out' = NumOut(Dot(a, b), ComputeModuleOf(a, b, FALSE))
    /\ UNCHANGED <<kw, a, b, behavior, with_name, vs>>

EqualCall ==
    /\ op = "none" /\ a.dim > 0
    /\ op' = "equal"
    /\ out' = BoolOut(Equal(a, b), ComputeModuleOf(a, b, FALSE))
    /\ UNCHANGED <<kw, a, b, behavior, with_name, vs>>

NotEqualCall ==
    /\ op = "none" /\ a.dim > 0
    /\ op' = "not_equal"
    /\ out' = BoolOut(NotEqual(a, b), ComputeModuleOf(a, b, FALSE))
    /\ UNCHANGED <<kw, a, b, behavior, with_name, vs>>

IsCloseCall ==
    /\ op = "none" /\ a.dim > 0
    /\ op' = "isclose"
    /\ out' = BoolOut(IsClose(a, b), ComputeModuleOf(a, b, FALSE))
    /\ UNCHANGED <<kw, a, b, behavior, with_name, vs>>

\* cross is a method of 3D and 4D vectors, computed by the spatial module
CrossCall ==
    /\ op = "none" /\ a.dim > 0
    /\ op' = "cross"
    /\ out' = IF a.dim >= 3 /\ b.dim >= 3 THEN VecOut(Cross(a, b)) ELSE ErrOut("AttributeError")
    /\ UNCHANGED <<kw, a, b, behavior, with_name, vs>>

Next ==
    \/ AddCall
    \/ SubtractCall
    \/ DotCall
    \/ EqualCall
    \/ NotEqualCall
    \/ IsCloseCall
    \/ CrossCall

Spec == Init /\ [][Next]_vars

(***************************************************************************)
(* Members of one vector: coordinates, derived coordinates and their       *)
(* momentum synonyms.  A ratio (costheta, cottheta, beta, gamma) and a     *)
(* rapidity are in thousandths.                                            *)
(***************************************************************************)
\* u / w
FDiv(u, w) ==
    IF IsNaN(u) \/ IsNaN(w) THEN NaN
    ELSE IF IsInf(u) THEN (IF IsInf(w) THEN NaN ELSE Inf(u.v * (IF FSign(w) < 0 THEN -1 ELSE 1)))
    ELSE IF IsInf(w) THEN Fin(0)
    ELSE IF w.v = 0 THEN (IF u.v = 0 THEN NaN ELSE Inf(Sgn(u.v)))
    ELSE Fin(RDiv(u.v * Sgn(w.v), Abs(w.v)))

\* u / w in thousandths
FRatio(u, w) == FDiv(FMul(Fin(1000), u), w)

CoordMag(v) == FSqrt(CoordMag2(v))

CoordCosTheta(v) ==
    CASE v.lo = "Theta" -> IF IsFin(v.f.theta) THEN Fin(200 * Cos5(v.f.theta.v)) ELSE NaN
      [] v.lo = "Eta" ->
           IF IsFin(v.f.eta) THEN Fin(200 * Cos5(3 - v.f.eta.v))
           ELSE IF IsNaN(v.f.eta) THEN NaN
           ELSE Fin(1000 * v.f.eta.v)
      [] v.lo = "Z" ->
           IF IsNaN(CoordMag(v)) THEN NaN
           ELSE IF FSign(CoordMag(v)) = 0 THEN Fin(0)
           ELSE FRatio(v.f.z, CoordMag(v))

CoordCotTheta(v) ==
    CASE v.lo = "Theta" ->
           IF IsFin(v.f.theta)
           THEN FScale(Fin(1000), CotOfTheta(v.f.theta)[1], CotOfTheta(v.f.theta)[2])
           ELSE NaN
      [] v.lo = "Eta" ->
           IF IsFin(v.f.eta)
           THEN FScale(Fin(1000), SinhOfEta(v.f.eta)[1], SinhOfEta(v.f.eta)[2])
           ELSE v.f.eta
      [] v.lo = "Z" -> FRatio(v.f.z, CoordRho(v))

CoordT2(v) == FMul(CoordT(v), CoordT(v))

\* beta = mag / t
CoordBeta(v) == FRatio(CoordMag(v), CoordT(v))

\* gamma = 1 / sqrt(1 - beta^2) = t / sqrt(t^2 - mag^2)
CoordGamma(v) == FRatio(CoordT(v), FSqrt(FSub(CoordT2(v), CoordMag2(v))))

\* rapidity = atanh(z / t), by its Pade approximant r (15 - 4 r^2) / (15 - 9 r^2)
CoordRapidity(v) ==
    LET z == CoordZ(v)
        t == CoordT(v)
    IN IF IsNaN(z) \/ IsNaN(t) THEN NaN
       ELSE IF IsInf(z) \/ IsInf(t) THEN (IF IsInf(z) /\ IsInf(t) THEN Inf(z.v * t.v)
                                          ELSE IF IsInf(z) THEN NaN ELSE Fin(0))
       ELSE IF Abs(z.v) > Abs(t.v) THEN NaN
       ELSE IF Abs(z.v) = Abs(t.v) THEN (IF z.v = 0 THEN NaN ELSE Inf(Sgn(z.v) * Sgn(t.v)))
       ELSE FRatio(Fin(z.v * (15 * t.v * t.v - 4 * z.v * z.v)),
                   Fin(t.v * (15 * t.v * t.v - 9 * z.v * z.v)))

\* the members by the dimension that defines them
PlanarMembers == {"x", "y", "rho", "rho2", "phi"}
SpatialMembers == {"z", "theta", "eta", "costheta", "cottheta", "mag", "mag2"}
LorentzMembers == {"t", "t2", "tau", "tau2", "beta", "gamma", "rapidity"}
MomentumMembers ==
    {"px", "py", "pt", "pt2", "pz", "p", "p2", "E", "e", "energy", "E2", "M", "m", "mass", "M2"}
\* every member asked for; "w" is a name no vector has
Members == PlanarMembers \cup SpatialMembers \cup LorentzMembers \cup MomentumMembers \cup {"w"}

\* the geometric member a name stands for
MemberOf(n) ==
    CASE n = "pt2" -> "rho2"
      [] n = "p" -> "mag"
      [] n = "p2" -> "mag2"
      [] n = "E2" -> "t2"
      [] n = "M2" -> "tau2"
      [] OTHER -> GenericOf(n)

\* the members a vector of dimension d has under geometric names
MembersAt(d) ==
    PlanarMembers \cup (IF d >= 3 THEN SpatialMembers ELSE {})
                  \cup (IF d >= 4 THEN LorentzMembers ELSE {})

\* the value of the geometric member g
Member(v, g) ==
    CASE g \in GenericNames -> Coord(v, g)
      [] g = "rho2" -> CoordRho2(v)
      [] g = "costheta" -> CoordCosTheta(v)
      [] g = "cottheta" -> CoordCotTheta(v)
      [] g = "mag" -> CoordMag(v)
      [] g = "mag2" -> CoordMag2(v)
      [] g = "t2" -> CoordT2(v)
      [] g = "tau2" -> CoordTau2(v)
      [] g = "beta" -> CoordBeta(v)
      [] g = "gamma" -> CoordGamma(v)
      [] g = "rapidity" -> CoordRapidity(v)

\* GetAttr raising where a coordinate has no finite value
GetAttrPartial(v, n) ==
    IF n \in MomentumMembers /\ ~v.mom THEN ErrOut("AttributeError")
    ELSE IF MemberOf(n) \notin MembersAt(v.dim) THEN ErrOut("AttributeError")
    ELSE IF ~IsFin(Member(v, MemberOf(n))) THEN ErrOut("ZeroDivisionError")
    ELSE NumOut(Member(v, MemberOf(n)), v.dim)

\* GetAttr answering every name on every vector
GetAttrLax(v, n) ==
    IF MemberOf(n) \notin MembersAt(v.dim) THEN NumOut(NaN, v.dim)
    ELSE NumOut(Member(v, MemberOf(n)), v.dim)

\* GetAttr reading mass, M and m as the energy
GetAttrEnergy(v, n) ==
    IF n \in MomentumMembers /\ ~v.mom THEN ErrOut("AttributeError")
    ELSE IF MemberOf(n) \notin MembersAt(v.dim) THEN ErrOut("AttributeError")
    ELSE NumOut(Member(v, IF MemberOf(n) = "tau" THEN "t" ELSE MemberOf(n)), v.dim)

\* v.n: the member n of v
GetAttr(v, n) ==
    IF n \in MomentumMembers /\ ~v.mom THEN ErrOut("AttributeError")
    ELSE IF MemberOf(n) \notin MembersAt(v.dim) THEN ErrOut("AttributeError")
    ELSE NumOut(Member(v, MemberOf(n)), v.dim)

\* abs answering with the spatial magnitude in every dimension
VectorAbsSpatial(v) ==
    IF v.dim = 2 THEN NumOut(CoordRho(v), v.dim) ELSE NumOut(CoordMag(v), v.dim)

\* abs(v): rho for 2D vectors, mag for 3D vectors, tau for 4D vectors
VectorAbs(v) ==
    IF v.dim = 2 THEN NumOut(CoordRho(v), v.dim)
    ELSE IF v.dim = 3 THEN NumOut(CoordMag(v), v.dim)
    ELSE NumOut(CoordTau(v), v.dim)

(***************************************************************************)
(* Boosts along an axis.  beta is in fifths, gamma in twelfths, so that    *)
(* beta = 3/5 and gamma = 15/12 name the same boost exactly.               *)
(***************************************************************************)
\* the boosted (spatial, temporal) pair of coordinates s, t
BoostPair(s, t, kwargs) ==
    IF "beta" \in DOMAIN kwargs
    THEN LET k == kwargs.beta
             d == FSqrt(FSub(Fin(25), FMul(k, k)))
         IN <<FDiv(FAdd(FMul(Fin(5), s), FMul(k, t)), d),
              FDiv(FAdd(FMul(k, s), FMul(Fin(5), t)), d)>>
    ELSE LET g == FAbs(kwargs.gamma)
             bg == CopySign(FSqrt(FSub(FMul(g, g), Fin(144))), kwargs.gamma)
         IN <<FDiv(FAdd(FMul(g, s), FMul(bg, t)), Fin(12)),
              FDiv(FAdd(FMul(bg, s), FMul(g, t)), Fin(12))>>

\* BoostAxis taking beta where both beta and gamma are given, and no boost where neither is
BoostAxisLenient(v, axis, kwargs) ==
    IF v.dim < 4 THEN ErrOut("AttributeError")
    ELSE IF {"beta", "gamma"} \cap DOMAIN kwargs = {} THEN VecOut(ToKinds(v, "XY", "Z", "T"))
    ELSE LET pair == BoostPair(Coord(v, axis), CoordT(v), kwargs)
         IN VecOut(WrapResult(v.mom, "XY", "Z", "T",
                              [g \in {"x", "y", "z", "t"} |->
                                 IF g = axis THEN pair[1]
                                 ELSE IF g = "t" THEN pair[2]
                                 ELSE Coord(v, g)]))

\* boostX, boostY, boostZ (axis "x", "y", "z") with the keyword arguments kwargs
BoostAxis(v, axis, kwargs) ==
    IF v.dim < 4 THEN ErrOut("AttributeError")
    ELSE IF Cardinality({"beta", "gamma"} \cap DOMAIN kwargs) # 1 THEN ErrOut("TypeError")
    ELSE LET pair == BoostPair(Coord(v, axis), CoordT(v), kwargs)
         IN VecOut(WrapResult(v.mom, "XY", "Z", "T",
                              [g \in {"x", "y", "z", "t"} |->
                                 IF g = axis THEN pair[1]
                                 ELSE IF g = "t" THEN pair[2]
                                 ELSE Coord(v, g)]))

(***************************************************************************)
(* Rotations.  An angle is a phi code.  A rotation acts on the azimuthal   *)
(* and longitudinal coordinates; a temporal coordinate is passed through   *)
(* as it is stored.                                                        *)
(***************************************************************************)
\* (c u - s w) / 5 and (s u + c w) / 5 for the angle code k
Turn(u, w, k) ==
    <<FDiv(FSub(FMul(Fin(Cos5(k)), u), FMul(Fin(Sin5(k)), w)), Fin(5)),
      FDiv(FAdd(FMul(Fin(Sin5(k)), u), FMul(Fin(Cos5(k)), w)), Fin(5))>>

\* the phi code of the direction of code p turned by the angle of code k
TurnPhi(p, k) ==
    Atan2Code(Sin5(p) * Cos5(k) + Cos5(p) * Sin5(k), Cos5(p) * Cos5(k) - Sin5(p) * Sin5(k))

\* WithTemporalOf turning the temporal coordinate into t
WithCartesianTemporalOf(v, x, y, z) ==
    WrapResult(v.mom, "XY", "Z", IF v.dim = 4 THEN "T" ELSE "None",
               [g \in {"x", "y", "z", "t"} |->
                  CASE g = "x" -> x [] g = "y" -> y [] g = "z" -> z
                    [] g = "t" -> IF v.dim = 4 THEN CoordT(v) ELSE NaN])

\* the vector (x, y, z) with the flavor of v and the temporal coordinate v stores
WithTemporalOf(v, x, y, z) ==
    WrapResult(v.mom, "XY", "Z", v.te,
               [g \in {"x", "y", "z"} \cup FieldsOf(v.te) |->
                  CASE g = "x" -> x [] g = "y" -> y [] g = "z" -> z [] OTHER -> v.f[g]])

\* rotateZ: a planar rotation; the longitudinal and temporal coordinates stay as stored
RotateZ(v, k) ==
    IF v.az = "RhoPhi"
    THEN [v EXCEPT !.f.phi = IF IsFin(v.f.phi) THEN Fin(TurnPhi(v.f.phi.v, k)) ELSE v.f.phi]
    ELSE [v EXCEPT !.f.x = Turn(v.f.x, v.f.y, k)[1], !.f.y = Turn(v.f.x, v.f.y, k)[2]]

RotateX(v, k) ==
    LET yz == Turn(CoordY(v), CoordZ(v), k)
    IN WithTemporalOf(v, CoordX(v), yz[1], yz[2])

RotateY(v, k) ==
    LET zx == Turn(CoordZ(v), CoordX(v), k)
    IN WithTemporalOf(v, zx[2], CoordY(v), zx[1])

\* rotate_euler, order zxz: rotateZ(psi), then rotateX(theta), then rotateZ(phi)
RotateEuler(v, phi, theta, psi) ==
    LET xy1 == Turn(CoordX(v), CoordY(v), psi)
        yz2 == Turn(xy1[2], CoordZ(v), theta)
        xy3 == Turn(xy1[1], yz2[1], phi)
    IN WithTemporalOf(v, xy3[1], xy3[2], yz2[2])

\* the matrix <<xx, xy, xz, yx, yy, yz, zx, zy, zz>> over den applied to v
Transform3D(v, m, den) ==
    LET x == CoordX(v)
        y == CoordY(v)
        z == CoordZ(v)
        row(i) == FDiv(FAdd(FAdd(FMul(Fin(m[i]), x), FMul(Fin(m[i + 1]), y)), FMul(Fin(m[i + 2]), z)),
                       Fin(den))
    IN IF den = 0 THEN WithTemporalOf(v, NaN, NaN, NaN)
       ELSE WithTemporalOf(v, row(1), row(4), row(7))

\* rotate_quaternion(u, i, j, k)
RotateQuaternion(v, u, i, j, k) ==
    Transform3D(v, <<u * u + i * i - j * j - k * k, 2 * (i * j - u * k), 2 * (i * k + u * j),
                     2 * (i * j + u * k), u * u - i * i + j * j - k * k, 2 * (j * k - u * i),
                     2 * (i * k - u * j), 2 * (j * k + u * i), u * u - i * i - j * j + k * k>>, 1)

\* rotate_axis(axis, angle): Rodrigues' formula about axis / |axis|; n is the
\* axis and m its length
RotateAxis(v, axis, k) ==
    LET nx == CoordX(axis)
        ny == CoordY(axis)
        nz == CoordZ(axis)
        len == CoordMag(axis)
    IN IF ~(IsFin(nx) /\ IsFin(ny) /\ IsFin(nz) /\ IsFin(len)) THEN WithTemporalOf(v, NaN, NaN, NaN)
       ELSE LET m == len.v
                c == Cos5(k)
                sn == Sin5(k)
                e(p, q) == (5 - c) * p * q
            IN Transform3D(v,
                   <<c * m * m + e(nx.v, nx.v), e(nx.v, ny.v) - sn * m * nz.v, e(nx.v, nz.v) + sn * m * ny.v,
                     e(ny.v, nx.v) + sn * m * nz.v, c * m * m + e(ny.v, ny.v), e(ny.v, nz.v) - sn * m * nx.v,
                     e(nz.v, nx.v) - sn * m * ny.v, e(nz.v, ny.v) + sn * m * nx.v, c * m * m + e(nz.v, nz.v)>>,
                   5 * m * m)

(***************************************************************************)
(* scale and the conversions between coordinate systems.                   *)
(***************************************************************************)
\* Scale computing in Cartesian coordinates
ScaleCartesian(v, factor) ==
    LET c == Cartesian(v.dim)
    IN WrapResult(v.mom, c[1], c[2], c[3],
                  [g \in CartesianFields(v.dim) |-> FMul(Coord(v, g), factor)])

\* scale multiplying every stored length by the factor itself
ScaleSigned(v, factor) ==
    [v EXCEPT !.f = [g \in DOMAIN v.f |->
                       IF g \in {"x", "y", "z", "t", "rho", "tau"} THEN FMul(v.f[g], factor)
                       ELSE v.f[g]]]

\* scale(factor), factor # 0: each stored coordinate is scaled in its own kind;
\* a negative factor turns the direction around and leaves rho non-negative
Scale(v, factor) ==
    LET neg == FSign(factor) < 0
        scaled(g) ==
            CASE g \in {"x", "y", "z", "t"} -> FMul(v.f[g], factor)
              [] g \in {"rho", "tau"} -> FMul(v.f[g], FAbs(factor))
              [] g = "phi" -> IF neg /\ IsFin(v.f.phi) THEN Fin(TurnPhi(v.f.phi.v, 6)) ELSE v.f.phi
              [] g = "theta" -> IF neg /\ IsFin(v.f.theta) THEN Fin(6 - v.f.theta.v) ELSE v.f.theta
              [] g = "eta" -> IF neg THEN FNeg(v.f.eta) ELSE v.f.eta
    IN IF IsNaN(factor) THEN [v EXCEPT !.f = [g \in DOMAIN v.f |-> NaN]]
       ELSE [v EXCEPT !.f = [g \in DOMAIN v.f |-> scaled(g)]]

\* the coordinate systems of dimension d, as <<azimuthal, longitudinal, temporal>>
SystemsAt(d) ==
    {<<az, lo, te>> : az \in AzKinds,
                      lo \in IF d >= 3 THEN LoKinds ELSE {"None"},
                      te \in IF d >= 4 THEN TeKinds ELSE {"None"}}

(***************************************************************************)
(* Methods of one vector: a constructed vector, the keyword arguments of   *)
(* the call, and (for cross and rotate_axis) a second vector.              *)
(***************************************************************************)
\* vectors with zero, infinite and NaN coordinates, spacelike, lightlike and
\* timelike ones of both time directions
SpecialOperands ==
    {Obj([x |-> Fin(xy[1]), y |-> Fin(xy[2]), z |-> z]).vec :
        xy \in {<<0, 0>>, <<3, 4>>}, z \in {NaN, PosInf, NegInf, Fin(0), Fin(2), Fin(-2)}}
    \cup {Obj([x |-> Fin(q[1]), y |-> Fin(q[2]), z |-> Fin(q[3]), t |-> Fin(q[4])]).vec :
            q \in {<<10, 0, 0, 1>>, <<5, 0, 0, 3>>, <<5, 0, 0, -3>>, <<0, 0, 4, 5>>,
                   <<0, 0, 4, -5>>, <<3, 4, 0, 5>>, <<3, 4, 0, -5>>, <<0, 0, 0, 0>>}}
    \cup {Obj([x |-> Fin(q[1]), y |-> Fin(q[2]), z |-> Fin(q[3]), tau |-> Fin(q[4])]).vec :
            q \in {<<3, 4, 0, -3>>, <<3, 4, 0, -13>>, <<0, 0, 0, -1>>, <<1, 2, 3, 10>>}}

OneOperands == Operands \cup SpecialOperands

\* the second vector of cross and rotate_axis
Axes ==
    {Obj([x |-> Fin(0), y |-> Fin(0), z |-> Fin(2)]).vec,
     Obj([x |-> Fin(3), y |-> Fin(4), z |-> Fin(0)]).vec,
     Obj([x |-> Fin(0), y |-> Fin(0), z |-> Fin(0)]).vec,
     Obj([x |-> Fin(1), y |-> Fin(0)]).vec}

\* the keyword arguments of boostX, boostY, boostZ
BoostArgs ==
    {NoKwargs, [beta |-> Fin(3), gamma |-> Fin(15)]}
    \cup {[beta |-> Fin(k)] : k \in {0, 3, -4, 5}}
    \cup {[gamma |-> Fin(g)] : g \in {12, 15, -20, 6}}

AngleArgs == {[angle |-> Fin(k)] : k \in {0, 2, 3, -5}}
EulerArgs ==
    {[phi |-> Fin(q[1]), theta |-> Fin(q[2]), psi |-> Fin(q[3])] :
        q \in {<<0, 0, 0>>, <<3, 2, -3>>, <<1, 3, 6>>}}
QuaternionArgs ==
    {[u |-> Fin(q[1]), i |-> Fin(q[2]), j |-> Fin(q[3]), k |-> Fin(q[4])] :
        q \in {<<1, 0, 0, 0>>, <<0, 1, 0, 0>>, <<0, 0, 1, 0>>, <<0, 0, 0, 1>>}}
FactorArgs == {[factor |-> Fin(n)] : n \in {10, 2, -1, -3}}

CallArgs == BoostArgs \cup AngleArgs \cup EulerArgs \cup QuaternionArgs \cup FactorArgs

\* the keyword arguments vector.obj is given to build the operands
ObjArgs == {Kwargs(S, p) : S \in OperandNames, p \in 1..MaxPoint}

\* either a constructor call to come, or a constructed vector and a method call to come
InitOne ==
    /\ \/ kw \in ObjArgs /\ a = NoVec /\ b = NoVec
       \/ kw \in CallArgs /\ a \in OneOperands /\ b \in Axes \cup {NoVec}
    /\ op = "none"
    /\ out = NoOut
    /\ behavior = NoBehavior
    /\ with_name = NoNames
    /\ vs = <<>>

\* v.n for any member name n
GetAttrCall ==
    /\ op = "none" /\ kw = NoKwargs /\ a.dim > 0 /\ b = NoVec
    /\ \E n \in Members :
         /\ op' = n
         /\ out' = GetAttr(a, n)
    /\ UNCHANGED <<kw, a, b, behavior, with_name, vs>>

\* abs(v)
AbsCall ==
    /\ op = "none" /\ kw = NoKwargs /\ a.dim > 0 /\ b = NoVec
    /\ op' = "abs"
    /\ out' = VectorAbs(a)
    /\ UNCHANGED <<kw, a, b, behavior, with_name, vs>>

BoostCall ==
    /\ op = "none" /\ kw \in BoostArgs /\ a.dim > 0 /\ b = NoVec
    /\ \E axis \in {"x", "y", "z"} :
         /\ op' = (CASE axis = "x" -> "boostX" [] axis = "y" -> "boostY" [] axis = "z" -> "boostZ")
         /\ out' = BoostAxis(a, axis, kw)
    /\ UNCHANGED <<kw, a, b, behavior, with_name, vs>>

\* rotateZ is a method of every vector
RotateZCall ==
    /\ op = "none" /\ kw \in AngleArgs /\ a.dim > 0 /\ b = NoVec
    /\ op' = "rotateZ"
    /\ out' = VecOut(RotateZ(a, kw.angle.v))
    /\ UNCHANGED <<kw, a, b, behavior, with_name, vs>>

\* rotateX and rotateY are methods of 3D and 4D vectors
RotateXYCall ==
    /\ op = "none" /\ kw \in AngleArgs /\ a.dim > 0 /\ b = NoVec
    /\ \/ /\ op' = "rotateX"
          /\ out' = IF a.dim >= 3 THEN VecOut(RotateX(a, kw.angle.v)) ELSE ErrOut("AttributeError")
       \/ /\ op' = "rotateY"
          /\ out' = IF a.dim >= 3 THEN VecOut(RotateY(a, kw.angle.v)) ELSE ErrOut("AttributeError")
    /\ UNCHANGED <<kw, a, b, behavior, with_name, vs>>

\* rotate_axis(axis, angle): the axis must be at least 3D
RotateAxisCall ==
    /\ op = "none" /\ kw \in AngleArgs /\ a.dim > 0 /\ b.dim > 0
    /\ op' = "rotate_axis"
    /\ out' = IF a.dim < 3 THEN ErrOut("AttributeError")
              ELSE IF b.dim < 3 THEN ErrOut("TypeError")
              ELSE VecOut(RotateAxis(a, b, kw.angle.v))
    /\ UNCHANGED <<kw, a, b, behavior, with_name, vs>>

RotateEulerCall ==
    /\ op = "none" /\ kw \in EulerArgs /\ a.dim > 0 /\ b = NoVec
    /\ op' = "rotate_euler"
    /\ out' = IF a.dim >= 3 THEN VecOut(RotateEuler(a, kw.phi.v, kw.theta.v, kw.psi.v))
              ELSE ErrOut("AttributeError")
    /\ UNCHANGED <<kw, a, b, behavior, with_name, vs>>

RotateQuaternionCall ==
    /\ op = "none" /\ kw \in QuaternionArgs /\ a.dim > 0 /\ b = NoVec
    /\ op' = "rotate_quaternion"
    /\ out' = IF a.dim >= 3 THEN VecOut(RotateQuaternion(a, kw.u.v, kw.i.v, kw.j.v, kw.k.v))
              ELSE ErrOut("AttributeError")
    /\ UNCHANGED <<kw, a, b, behavior, with_name, vs>>

ScaleCall ==
    /\ op = "none" /\ kw \in FactorArgs /\ a.dim > 0 /\ b = NoVec
    /\ op' = "scale"
    /\ out' = VecOut(Scale(a, kw.factor))
    /\ UNCHANGED <<kw, a, b, behavior, with_name, vs>>

\* to_xy, to_rhophietatau, ...: a in another coordinate system of its dimension
ToCoordinatesCall ==
    /\ op = "none" /\ kw = NoKwargs /\ a.dim > 0 /\ b = NoVec
    /\ \E k \in SystemsAt(a.dim) :
         /\ op' = "to_coordinates"
         /\ out' = VecOut(ToKinds(a, k[1], k[2], k[3]))
    /\ UNCHANGED <<kw, a, b, behavior, with_name, vs>>

\* a.cross(b) with the second vector
CrossOneCall ==
    /\ kw = NoKwargs /\ b.dim > 0
    /\ CrossCall

\* vector.obj with the keyword arguments at hand
ObjOneCall ==
    /\ kw \in ObjArgs
    /\ ObjCall

NextOne ==
    \/ ObjOneCall
    \/ GetAttrCall
    \/ AbsCall
    \/ BoostCall
    \/ RotateZCall
    \/ RotateXYCall
    \/ RotateAxisCall
    \/ RotateEulerCall
    \/ RotateQuaternionCall
    \/ ScaleCall
    \/ ToCoordinatesCall
    \/ CrossOneCall

SpecOne == InitOne /\ [][NextOne]_vars

(***************************************************************************)
(* Arrays of vector records.  An array of records named n is an instance   *)
(* of the class the behavior registry holds for n; a binary operator is    *)
(* the function the registry holds for (ufunc, left name, right name).     *)
(***************************************************************************)
LibraryNames == {"Vector2D", "Vector3D", "Vector4D", "Momentum2D", "Momentum3D", "Momentum4D"}
\* the records of the mixin subclasses TwoVector, ThreeVector and LorentzVector
UserNames == {"TwoVector", "ThreeVector", "LorentzVector"}
RecordNames == LibraryNames \cup UserNames

VectorArray(d) ==
    CASE d = 2 -> "VectorArray2D" [] d = 3 -> "VectorArray3D" [] d = 4 -> "VectorArray4D"
MomentumArray(d) ==
    CASE d = 2 -> "MomentumArray2D" [] d = 3 -> "MomentumArray3D" [] d = 4 -> "MomentumArray4D"
\* the mixin array classes, which "must always end with Array"
UserArray(d) ==
    CASE d = 2 -> "TwoVectorArray" [] d = 3 -> "ThreeVectorArray" [] d = 4 -> "LorentzVectorArray"

DimOfName(n) ==
    CASE n \in {"Vector2D", "Momentum2D", "TwoVector"} -> 2
      [] n \in {"Vector3D", "Momentum3D", "ThreeVector"} -> 3
      [] n \in {"Vector4D", "Momentum4D", "LorentzVector"} -> 4

IsMomentumName(n) == n \notin {"Vector2D", "Vector3D", "Vector4D"}

\* the class registered for the records named n when the arrays are built
ClassOfName(n) ==
    IF n \in UserNames THEN UserArray(DimOfName(n))
    ELSE IF IsMomentumName(n) THEN MomentumArray(DimOfName(n))
    ELSE VectorArray(DimOfName(n))

\* the record name an array class gives its results
NameOfClass(c) == CHOOSE n \in RecordNames : ClassOfName(n) = c

DimOfClass(c) == DimOfName(NameOfClass(c))
IsMomentumClass(c) == IsMomentumName(NameOfClass(c))

\* c.ProjectionClass2D, 3D, 4D: the mixins set theirs (TwoVector and
\* ThreeVector set no ProjectionClass4D and inherit it)
ProjectionClass(c, d) ==
    IF c = "LorentzVectorArray" THEN UserArray(d)
    ELSE IF c \in {"TwoVectorArray", "ThreeVectorArray"} /\ d <= 3 THEN UserArray(d)
    ELSE IF IsMomentumClass(c) THEN MomentumArray(d)
    ELSE VectorArray(d)

\* c.MomentumClass: the mixins name themselves
MomentumClass(c) ==
    IF IsMomentumClass(c) THEN c ELSE MomentumArray(DimOfClass(c))

\* the class of the result of a binary method of an array of class c1 with
\* one of class c2, the result having dimension d
ResultClass(c1, c2, d) ==
    LET p == ProjectionClass(c1, d)
    IN IF IsMomentumClass(c1) \/ IsMomentumClass(c2) THEN MomentumClass(p) ELSE p

\* the vectors of an array seen through class c
AsClass(v, c) == [v EXCEPT !.mom = IsMomentumClass(c)]

\* the registry after vector.register_awkward and the mixin class definitions
InitialBehavior ==
    [classes |-> [n \in RecordNames |-> ClassOfName(n)],
     ufuncs |-> {<<u, l, r>> : u \in {"np.add", "np.subtract"},
                               l \in LibraryNames, r \in LibraryNames}]

\* behavior[(np.add, lhs, rhs)] = out_to.add, and the same for np.subtract,
\* for every pair of mixin records
RegisterBinary(bh) ==
    [bh EXCEPT !.ufuncs = @ \cup {<<u, l, r>> : u \in {"np.add", "np.subtract"},
                                                 l \in UserNames, r \in UserNames}]

\* behavior.update(copy_behaviors(from_name, to_name, behavior)): every item
\* registered for from_name is registered for to_name as well
CopyBehaviors(from_name, to_name, bh) ==
    LET swap(n) == IF n = from_name THEN to_name ELSE n
    IN [classes |-> [bh.classes EXCEPT ![to_name] = bh.classes[from_name]],
        ufuncs |-> bh.ufuncs \cup {<<k[1], swap(k[2]), swap(k[3])>> :
                                      k \in {e \in bh.ufuncs : from_name \in {e[2], e[3]}}}]

\* the copies the documentation makes
CopyArgs ==
    {<<"Vector2D", "TwoVector">>, <<"Vector3D", "ThreeVector">>, <<"Momentum4D", "LorentzVector">>}

\* the arrays: records of rho, phi (, eta (, t)) as in the documentation,
\* momentum or geometric, each standing for an array of such records
ArrayOperands ==
    {Obj(Kwargs(S, p)).vec :
        S \in {{"rho", "phi"}, {"rho", "phi", "eta"}, {"rho", "phi", "eta", "t"},
               {"pt", "phi"}, {"pt", "phi", "eta"}, {"pt", "phi", "eta", "energy"}},
        p \in {1, 2}}

\* the names ak.zip can give the records of v
NamesFor(v) == {n \in RecordNames : DimOfName(n) = v.dim /\ IsMomentumName(n) = v.mom}

InitAwkward ==
    /\ kw = NoKwargs
    /\ a \in ArrayOperands
    /\ b \in ArrayOperands
    /\ op = "none"
    /\ out = NoOut
    /\ behavior = InitialBehavior
    /\ with_name \in {[a |-> n1, b |-> n2, out |-> "None"] : n1 \in NamesFor(a), n2 \in NamesFor(b)}
    /\ vs = <<>>

\* the loop registering out_to.add and out_to.subtract for the mixin records
RegisterBinaryCall ==
    /\ op = "none"
    /\ behavior' = RegisterBinary(behavior)
    /\ behavior' # behavior
    /\ UNCHANGED <<kw, a, b, op, out, with_name, vs>>

CopyBehaviorsCall ==
    /\ op = "none"
    /\ \E c \in CopyArgs : behavior' = CopyBehaviors(c[1], c[2], behavior)
    /\ behavior' # behavior
    /\ UNCHANGED <<kw, a, b, op, out, with_name, vs>>

\* a.add(b), a.subtract(b): methods of the arrays as they were built
MethodCall ==
    /\ op = "none"
    /\ \E u \in {"add", "subtract"} :
         LET c1 == ClassOfName(with_name.a)
             c2 == ClassOfName(with_name.b)
             v1 == AsClass(a, c1)
             v2 == AsClass(b, c2)
             r == IF u = "add" THEN Add(v1, v2) ELSE Subtract(v1, v2)
         IN /\ op' = u
            /\ out' = VecOut(r)
            /\ with_name' = [with_name EXCEPT !.out = NameOfClass(ResultClass(c1, c2, r.dim))]
    /\ UNCHANGED <<kw, a, b, behavior, vs>>

\* a + b, a - b: the function registered for the two record names, if any,
\* applied to the operands wrapped in the classes now registered for them
UfuncCall ==
    /\ op = "none"
    /\ \E u \in {"np.add", "np.subtract"} :
         /\ <<u, with_name.a, with_name.b>> \in behavior.ufuncs
         /\ LET c1 == behavior.classes[with_name.a]
                c2 == behavior.classes[with_name.b]
                v1 == AsClass(a, c1)
                v2 == AsClass(b, c2)
                r == IF u = "np.add" THEN Add(v1, v2) ELSE Subtract(v1, v2)
            IN /\ op' = u
               /\ out' = VecOut(r)
               /\ with_name' = [with_name EXCEPT !.out = NameOfClass(ResultClass(c1, c2, r.dim))]
    /\ UNCHANGED <<kw, a, b, behavior, vs>>

NextAwkward ==
    \/ RegisterBinaryCall
    \/ CopyBehaviorsCall
    \/ MethodCall
    \/ UfuncCall

SpecAwkward == InitAwkward /\ [][NextAwkward]_vars

(***************************************************************************)
(* Reductions over a collection of vectors: Python's sum over vector       *)
(* objects, count and count_nonzero over an array (where None is a missing *)
(* vector).                                                                *)
(***************************************************************************)
\* sum adding only the first vector of the collection
SumOfFirst(seq, start) == IF seq = <<>> THEN start ELSE Add(start, seq[1])

RECURSIVE Sum(_, _)
\* sum(seq, start=start): start + seq[1] + seq[2] + ..., from the left
Sum(seq, start) ==
    IF seq = <<>> THEN start ELSE Sum(Tail(seq), Add(start, Head(seq)))

\* the vector has a coordinate that is not zero
IsNonzero(v) == \E g \in DOMAIN v.f : v.f[g] # Fin(0)

\* count_nonzero(): the number of vectors that are not zero
CountNonzero(seq) == Cardinality({i \in DOMAIN seq : seq[i] # NoVec /\ IsNonzero(seq[i])})

\* count(): the number of vectors that are not missing
Count(seq) == Cardinality({i \in DOMAIN seq : seq[i] # NoVec})

\* the vectors of the collections: both azimuthal kinds, every dimension,
\* both flavors, and zero vectors
SumOperands ==
    {Obj(Kwargs({"x", "y"}, 1)).vec, Obj(Kwargs({"rho", "phi"}, 2)).vec,
     Obj(Kwargs({"x", "y", "z"}, 1)).vec, Obj(Kwargs({"px", "py", "pz", "E"}, 2)).vec,
     Obj(Kwargs({"x", "y"}, 4)).vec, Obj(Kwargs({"x", "y", "z", "t"}, 4)).vec}

RECURSIVE SeqsUpTo(_, _)
\* the sequences over S of length at most k
SeqsUpTo(S, k) ==
    IF k = 0 THEN {<<>>}
    ELSE LET shorter == SeqsUpTo(S, k - 1)
         IN shorter \cup {Append(q, e) : q \in shorter, e \in S}

\* the records of an array all have the same fields
Homogeneous(seq) ==
    \A i, j \in DOMAIN seq :
        (seq[i] # NoVec /\ seq[j] # NoVec) => DOMAIN seq[i].f = DOMAIN seq[j].f

InitSum ==
    /\ kw = NoKwargs
    /\ a \in SumOperands
    /\ b = NoVec
    /\ op = "none"
    /\ out = NoOut
    /\ behavior = NoBehavior
    /\ with_name = NoNames
    /\ vs \in SeqsUpTo(SumOperands \cup {NoVec}, MaxLen)

\* sum(vs, start=a) over a list of vector objects
SumCall ==
    /\ op = "none"
    /\ \A i \in DOMAIN vs : vs[i] # NoVec
    /\ op' = "sum"
    /\ out' = VecOut(Sum(vs, a))
    /\ UNCHANGED <<kw, a, b, behavior, with_name, vs>>

CountNonzeroCall ==
    /\ op = "none"
    /\ Homogeneous(vs)
    /\ op' = "count_nonzero"
    /\ out' = NumOut(Fin(CountNonzero(vs)), 0)
    /\ UNCHANGED <<kw, a, b, behavior, with_name, vs>>

CountCall ==
    /\ op = "none"
    /\ Homogeneous(vs)
    /\ op' = "count"
    /\ out' = NumOut(Fin(Count(vs)), 0)
    /\ UNCHANGED <<kw, a, b, behavior, with_name, vs>>

NextSum ==
    \/ SumCall
    \/ CountNonzeroCall
    \/ CountCall

SpecSum == InitSum /\ [][NextSum]_vars

(***************************************************************************)
(* Operations applied one after another: each operation is applied to the  *)
(* result of the previous one (to a at first), binary operations take b as *)
(* their second operand, and vs collects the results.  a and b are the     *)
(* only inputs.                                                            *)
(***************************************************************************)
ChainOperands ==
    {Obj(Kwargs({"x", "y"}, 1)).vec, Obj(Kwargs({"pt", "phi"}, 2)).vec,
     Obj(Kwargs({"x", "y", "z"}, 1)).vec, Obj(Kwargs({"rho", "phi", "eta"}, 2)).vec,
     Obj(Kwargs({"px", "py", "pz", "E"}, 2)).vec, Obj(Kwargs({"x", "y", "z", "t"}, 1)).vec,
     Obj(Kwargs({"rho", "phi", "theta", "tau"}, 1)).vec,
     Obj(Kwargs({"pt", "phi", "eta", "M"}, 2)).vec,
     Obj([x |-> Fin(0), y |-> Fin(0), z |-> Fin(2)]).vec}

ChainSeconds ==
    {Obj(Kwargs({"px", "py"}, 3)).vec, Obj(Kwargs({"x", "y", "z"}, 3)).vec,
     Obj(Kwargs({"px", "py", "pz", "E"}, 1)).vec, Obj(Kwargs({"x", "y", "z", "t"}, 2)).vec}

\* the vector the next operation is applied to
Current == IF vs = <<>> THEN a ELSE vs[Len(vs)]

InitChain ==
    /\ kw = NoKwargs
    /\ a \in ChainOperands
    /\ b \in ChainSeconds
    /\ op = "none"
    /\ out = NoOut
    /\ behavior = NoBehavior
    /\ with_name = NoNames
    /\ vs = <<>>

\* scale working on the operand itself
ThenScaleInPlace ==
    /\ Len(vs) < MaxSteps
    /\ \E factor \in {2, -1} :
         /\ op' = "scale"
         /\ a' = Scale(Current, Fin(factor))
         /\ out' = VecOut(a')
         /\ vs' = Append(vs, a')
    /\ UNCHANGED <<kw, b, behavior, with_name>>

ThenScale ==
    /\ Len(vs) < MaxSteps
    /\ \E factor \in {2, -1} :
         /\ op' = "scale"
         /\ out' = VecOut(Scale(Current, Fin(factor)))
         /\ vs' = Append(vs, Scale(Current, Fin(factor)))
    /\ UNCHANGED <<kw, a, b, behavior, with_name>>

ThenRotateZ ==
    /\ Len(vs) < MaxSteps
    /\ op' = "rotateZ"
    /\ out' = VecOut(RotateZ(Current, 3))
    /\ vs' = Append(vs, RotateZ(Current, 3))
    /\ UNCHANGED <<kw, a, b, behavior, with_name>>

\* to_xy, to_rhophietatau, ...
ThenToCoordinates ==
    /\ Len(vs) < MaxSteps
    /\ \E k \in {Cartesian(Current.dim),
                KindsAt([az |-> "RhoPhi", lo |-> "Eta", te |-> "Tau"], Current.dim)} :
         /\ op' = "to_coordinates"
         /\ out' = VecOut(ToKinds(Current, k[1], k[2], k[3]))
         /\ vs' = Append(vs, ToKinds(Current, k[1], k[2], k[3]))
    /\ UNCHANGED <<kw, a, b, behavior, with_name>>

\* to_Vector2D, to_Vector3D
ThenProject ==
    /\ Len(vs) < MaxSteps
    /\ \E d \in {n \in {2, 3} : n < Current.dim} :
         /\ op' = "to_VectorND"
         /\ out' = VecOut(Project(Current, d))
         /\ vs' = Append(vs, Project(Current, d))
    /\ UNCHANGED <<kw, a, b, behavior, with_name>>

ThenBoostZ ==
    /\ Len(vs) < MaxSteps
    /\ Current.dim = 4
    /\ op' = "boostZ"
    /\ out' = VecOut(BoostAxis(Current, "z", [beta |-> Fin(3)]).vec)
    /\ vs' = Append(vs, BoostAxis(Current, "z", [beta |-> Fin(3)]).vec)
    /\ UNCHANGED <<kw, a, b, behavior, with_name>>

ThenAdd ==
    /\ Len(vs) < MaxSteps
    /\ op' = "add"
    /\ out' = VecOut(Add(Current, b))
    /\ vs' = Append(vs, Add(Current, b))
    /\ UNCHANGED <<kw, a, b, behavior, with_name>>

ThenSubtract ==
    /\ Len(vs) < MaxSteps
    /\ op' = "subtract"
    /\ out' = VecOut(Subtract(b, Current))
    /\ vs' = Append(vs, Subtract(b, Current))
    /\ UNCHANGED <<kw, a, b, behavior, with_name>>

ThenCross ==
    /\ Len(vs) < MaxSteps
    /\ Current.dim >= 3 /\ b.dim >= 3
    /\ op' = "cross"
    /\ out' = VecOut(Cross(Current, b))
    /\ vs' = Append(vs, Cross(Current, b))
    /\ UNCHANGED <<kw, a, b, behavior, with_name>>

NextChain ==
    \/ ThenScale
    \/ ThenRotateZ
    \/ ThenToCoordinates
    \/ ThenProject
    \/ ThenBoostZ
    \/ ThenAdd
    \/ ThenSubtract
    \/ ThenCross

SpecChain == InitChain /\ [][NextChain]_vars

(***************************************************************************)
(* Properties.                                                             *)
(***************************************************************************)
MinDim(v1, v2) == IF v1.dim <= v2.dim THEN v1.dim ELSE v2.dim

C2_MomentumInfectious ==
    (op \in {"add", "subtract", "cross"} /\ out.kind = "vector") =>
        (out.vec.mom <=> (a.mom \/ b.mom))

C2_Witness ==
    /\ op = "add" /\ ~a.mom /\ b.mom
    /\ out.kind = "vector" /\ out.vec.mom

\* C3: add(a, b) and add(b, a) are the same vector, descriptor and stored
\* values, and dot(a, b) is dot(b, a), whatever the dimensions, kinds and
\* flavors of a and b.
C3_OrderIndependent ==
    /\ op = "add" => out.kind = "vector" /\ out.vec = Add(b, a)
    /\ op = "dot" => out.kind = "number" /\ out.val = Dot(b, a)

C3_Witness ==
    /\ op = "add" /\ a.dim = 3 /\ b.dim = 2 /\ a.az = "RhoPhi" /\ b.az = "XY" /\ a.mom /\ ~b.mom
    /\ out.vec = Add(b, a)

\* the fields a kind requires, as the data model lists them
C4Fields(kind) ==
    IF kind = "XY" THEN {"x", "y"}
    ELSE IF kind = "RhoPhi" THEN {"rho", "phi"}
    ELSE IF kind = "Z" THEN {"z"}
    ELSE IF kind = "Theta" THEN {"theta"}
    ELSE IF kind = "Eta" THEN {"eta"}
    ELSE IF kind = "T" THEN {"t"}
    ELSE IF kind = "Tau" THEN {"tau"}
    ELSE {}

C4WellFormed(v) ==
    /\ v.dim \in {2, 3, 4}
    /\ v.az \in {"XY", "RhoPhi"}
    /\ v.lo \in {"Z", "Theta", "Eta", "None"}
    /\ v.te \in {"T", "Tau", "None"}
    /\ v.lo # "None" <=> v.dim >= 3
    /\ v.te # "None" <=> v.dim = 4
    /\ DOMAIN v.f = C4Fields(v.az) \cup C4Fields(v.lo) \cup C4Fields(v.te)

\* C4: every vector, constructed or returned by an operation, has a
\* longitudinal kind exactly when its dimension is at least 3 and a temporal
\* kind exactly when its dimension is 4, and stores exactly the fields of its
\* kinds.
C4_DescriptorInvariant ==
    /\ a.dim > 0 => C4WellFormed(a)
    /\ b.dim > 0 => C4WellFormed(b)
    /\ out.kind = "vector" => C4WellFormed(out.vec)

C4_Witness ==
    /\ op = "subtract" /\ a.dim = 4 /\ b.dim = 3
    /\ out.kind = "vector" /\ out.vec.dim = 3 /\ out.vec.lo # "None" /\ out.vec.te = "None"
    /\ DOMAIN out.vec.f = {"x", "y", "z"}

\* the keywords that spell a field: its geometric name and its momentum synonyms
C5Spellings(g) ==
    IF g = "x" THEN {"x", "px"}
    ELSE IF g = "y" THEN {"y", "py"}
    ELSE IF g = "rho" THEN {"rho", "pt"}
    ELSE IF g = "z" THEN {"z", "pz"}
    ELSE IF g = "t" THEN {"t", "E", "energy", "e"}
    ELSE IF g = "tau" THEN {"tau", "M", "mass", "m"}
    ELSE {g}

\* S spells the fields F: one keyword for each field, and no other keyword
C5Spells(S, F) ==
    /\ \A g \in F : Cardinality(S \cap C5Spellings(g)) = 1
    /\ \A n \in S : \E g \in F : n \in C5Spellings(g)

C5Recognized(S) ==
    \E az \in {"XY", "RhoPhi"}, lo \in {"Z", "Theta", "Eta", "None"}, te \in {"T", "Tau", "None"} :
        /\ te # "None" => lo # "None"
        /\ C5Spells(S, C4Fields(az) \cup C4Fields(lo) \cup C4Fields(te))

\* C5: vector.obj succeeds exactly when its keywords, synonyms mapped to
\* geometric names, are the fields of one azimuthal kind, optionally one
\* longitudinal kind, and optionally (with a longitudinal kind) one temporal
\* kind; any other keyword set raises an error and yields no vector.
C5_ConstructionExact ==
    op = "obj" =>
        /\ out.kind \in {"vector", "error"}
        /\ out.kind = "vector" <=> C5Recognized(DOMAIN kw)
        /\ out.kind = "error" => out.vec = NoVec

C5_Witness ==
    /\ op = "obj" /\ DOMAIN kw = {"x", "px", "y"}
    /\ out.kind = "error"

\* C6: a constructed vector is a momentum vector exactly when at least one
\* keyword is a momentum synonym.
C6_MomentumFromAnySynonym ==
    (op = "obj" /\ out.kind = "vector") =>
        (out.vec.mom <=>
            \E n \in DOMAIN kw : n \in {"px", "py", "pt", "pz", "E", "energy", "e", "M", "mass", "m"})

C6_Witness ==
    /\ op = "obj" /\ DOMAIN kw = {"x", "y", "z", "E"}
    /\ out.kind = "vector" /\ out.vec.mom /\ out.vec.dim = 4

\* C7: cross of two vectors that are each 3D or 4D is a vector of dimension 3
\* with no temporal kind and no temporal field.
C7_CrossIs3D ==
    (op = "cross" /\ a.dim >= 3 /\ b.dim >= 3) =>
        /\ out.kind = "vector"
        /\ out.vec.dim = 3
        /\ out.vec.te = "None"
        /\ DOMAIN out.vec.f \cap {"t", "tau"} = {}

C7_Witness ==
    /\ op = "cross" /\ a.dim = 4 /\ b.dim = 4
    /\ out.kind = "vector" /\ out.vec.dim = 3

Vec2(x, y) ==
    [dim |-> 2, az |-> "XY", lo |-> "None", te |-> "None", mom |-> FALSE,
     f |-> [x |-> Fin(x), y |-> Fin(y)]]
Vec3(x, y, z) ==
    [dim |-> 3, az |-> "XY", lo |-> "Z", te |-> "None", mom |-> FALSE,
     f |-> [x |-> Fin(x), y |-> Fin(y), z |-> Fin(z)]]
Vec4(x, y, z, t) ==
    [dim |-> 4, az |-> "XY", lo |-> "Z", te |-> "T", mom |-> FALSE,
     f |-> [x |-> Fin(x), y |-> Fin(y), z |-> Fin(z), t |-> Fin(t)]]
Polar2(rho, phi) ==
    [dim |-> 2, az |-> "RhoPhi", lo |-> "None", te |-> "None", mom |-> FALSE,
     f |-> [rho |-> Fin(rho), phi |-> Fin(phi)]]

C8Case == op = "subtract" /\ a = Vec3(1, 2, 3) /\ b = Vec2(1, 2)

C9Case == op = "subtract" /\ a = Vec4(1, 2, 3, 10) /\ b = Vec2(1, 2)

C10Verdict == IF op = "equal" THEN out.flag ELSE ~out.flag

\* C10: equal and not_equal compare the stored field values only:
\* (x=3, y=4) and (rho=5, phi=atan2(4, 3)) are not equal, two vectors of one
\* dimension are equal exactly when their kinds and stored values are the
\* same, and not_equal is the negation.
C10_EqualComparesStoredFields ==
    op \in {"equal", "not_equal"} =>
        /\ out.kind = "bool"
        /\ (a = Vec2(3, 4) /\ b = Polar2(5, 2)) => ~C10Verdict
        /\ a.dim = b.dim =>
             (C10Verdict <=> (a.az = b.az /\ a.lo = b.lo /\ a.te = b.te /\ a.f = b.f))

C10_Witness ==
    /\ op = "equal" /\ a = Vec2(3, 4) /\ b = Polar2(5, 2)
    /\ IsClose(a, b) /\ out.kind = "bool" /\ ~out.flag

C11Boosts == {"boostX", "boostY", "boostZ"}
C11Given == Cardinality({"beta", "gamma"} \cap DOMAIN kw)

\* C11: boostX, boostY and boostZ of a 4D vector raise an argument error,
\* and return nothing, exactly when both or neither of beta and gamma are
\* given; with exactly one of them the call returns a vector.
C11_BoostBetaXorGamma ==
    (op \in C11Boosts /\ a.dim = 4) =>
        /\ (out.kind = "error" /\ out.err = "TypeError" /\ out.vec = NoVec) <=> C11Given # 1
        /\ C11Given = 1 => out.kind = "vector"

C11_Witness ==
    /\ op = "boostX" /\ a.dim = 4 /\ DOMAIN kw = {"beta", "gamma"}
    /\ out.kind = "error" /\ out.err = "TypeError"

C12Rotations ==
    {"rotateX", "rotateY", "rotateZ", "rotate_axis", "rotate_euler", "rotate_quaternion"}

\* C12: every rotation of a 4D vector (about an axis that is at least 3D)
\* returns a 4D vector with the temporal kind and the stored temporal value
\* of the input.
C12_RotationKeepsTemporal ==
    (op \in C12Rotations /\ a.dim = 4 /\ (op = "rotate_axis" => b.dim >= 3)) =>
        /\ out.kind = "vector"
        /\ out.vec.dim = 4
        /\ out.vec.te = a.te
        /\ \A g \in {"t", "tau"} \cap DOMAIN a.f : g \in DOMAIN out.vec.f /\ out.vec.f[g] = a.f[g]
        /\ DOMAIN out.vec.f \cap {"t", "tau"} \subseteq DOMAIN a.f

C12_Witness ==
    /\ op = "rotateX" /\ kw = [angle |-> Fin(2)]
    /\ a = [dim |-> 4, az |-> "XY", lo |-> "Z", te |-> "Tau", mom |-> FALSE,
            f |-> [x |-> Fin(1), y |-> Fin(2), z |-> Fin(3), tau |-> Fin(10)]]
    /\ out.kind = "vector" /\ out.vec.te = "Tau" /\ out.vec.f.tau = Fin(10)
    /\ out.vec.f.x = Fin(1) /\ out.vec.f.y # Fin(2)

\* a is stored with t and has finite t and finite spatial magnitude
C13Finite == a.dim = 4 /\ a.te = "T" /\ IsFin(a.f.t) /\ IsFin(CoordMag2(a))
\* t^2 - mag^2 of such a vector
C13Interval == a.f.t.v * a.f.t.v - CoordMag2(a).v

\* C13: the tau of a vector stored with t has the sign of t^2 - mag^2:
\* negative for a spacelike vector, zero for a lightlike one, positive for a
\* timelike one; (x=10, y=0, z=0, t=1) has a negative tau.
C13_TauSign ==
    (op \in {"tau", "mass", "M", "m"} /\ out.kind = "number" /\ C13Finite) =>
        /\ IsFin(out.val)
        /\ Sgn(out.val.v) = Sgn(C13Interval)

C13_Witness ==
    /\ op = "tau" /\ C13Finite
    /\ a.f = [x |-> Fin(10), y |-> Fin(0), z |-> Fin(0), t |-> Fin(1)]
    /\ out.kind = "number" /\ out.val.v < 0

\* a conversion of a from t to tau that leaves the other kinds alone, where the
\* root of the interval is exact
C14Case ==
    /\ op = "to_coordinates" /\ C13Finite
    /\ out.kind = "vector" /\ out.vec.te = "Tau" /\ out.vec.az = a.az /\ out.vec.lo = a.lo
    /\ ISqrt(Abs(C13Interval)) * ISqrt(Abs(C13Interval)) = Abs(C13Interval)

\* C14 as stated: t -> tau -> t gives the original t with its sign, and 0 for
\* a timelike vector with negative t.
C14_Original ==
    C14Case =>
        CoordT(out.vec) = (IF C13Interval > 0 /\ a.f.t.v < 0 THEN Fin(0) ELSE a.f.t)

\* C14, amended: t -> tau -> t gives |t|: the original t when it is not
\* negative, and -t, not 0 and not t, when it is negative, timelike or not.
\* The truncation to 0 is that of a vector stored with a negative tau whose
\* |tau| exceeds its spatial magnitude.
C14_RoundTripAbs ==
    /\ C14Case => CoordT(out.vec) = Fin(Abs(a.f.t.v))
    /\ (op = "t" /\ a.dim = 4 /\ a.te = "Tau" /\ IsFin(a.f.tau) /\ IsFin(CoordMag2(a))
          /\ a.f.tau.v < 0 /\ a.f.tau.v * a.f.tau.v > CoordMag2(a).v)
       => out.val = Fin(0)

C14_Witness ==
    /\ C14Case
    /\ a.f = [x |-> Fin(0), y |-> Fin(0), z |-> Fin(4), t |-> Fin(-5)]
    /\ out.vec.f.tau = Fin(3) /\ CoordT(out.vec) = Fin(5)

C15Case == op \in {"eta"} /\ a.dim >= 3 /\ a.lo = "Z" /\ out.kind = "number"
C15OnAxis == ~IsNaN(a.f.z) /\ ~IsNaN(CoordRho(a)) /\ FSign(CoordRho(a)) = 0

C16Counterpart(n) ==
    IF n = "px" THEN "x"
    ELSE IF n = "py" THEN "y"
    ELSE IF n = "pt" THEN "rho"
    ELSE IF n = "pz" THEN "z"
    ELSE IF n \in {"E", "energy", "e"} THEN "t"
    ELSE IF n \in {"M", "mass", "m"} THEN "tau"
    ELSE n

C16Synonyms == {"px", "py", "pt", "pz", "E", "energy", "e", "M", "mass", "m"}

\* C16: on a momentum vector every momentum synonym that the vector's
\* dimension has returns exactly the value of its geometric counterpart
\* (px = x, py = y, pt = rho, pz = z, E = energy = e = t, M = mass = m = tau),
\* and a vector built from synonyms stores each given value, unchanged, in
\* the field of the geometric name and has no field of a momentum name.
C16_SynonymsEqualGeneric ==
    /\ (op \in C16Synonyms /\ a.mom /\ C16Counterpart(op) \in MembersAt(a.dim)) =>
           /\ out.kind = "number"
           /\ out.val = Coord(a, C16Counterpart(op))
    /\ (op = "obj" /\ out.kind = "vector") =>
           /\ DOMAIN out.vec.f \cap C16Synonyms = {}
           /\ \A n \in DOMAIN kw :
                /\ C16Counterpart(n) \in DOMAIN out.vec.f
                /\ out.vec.f[C16Counterpart(n)] = kw[n]

\* mass is read from a momentum vector that stores t: it is the computed tau
C16_Witness ==
    /\ op = "mass" /\ a.mom /\ a.dim = 4 /\ a.te = "T"
    /\ out.kind = "number" /\ IsFin(out.val)
    /\ out.val = CoordTau(a) /\ out.val # a.f.t

\* C18: a member outside a vector's capability set raises an attribute
\* error: a momentum synonym (mass, pt, ...) on a geometric vector, a
\* property of a higher dimension (z on 2D, t on 3D), and cross on a 2D
\* vector; an attribute error comes with no value.
C18_OutsideCapabilityRaises ==
    /\ (op \in C16Synonyms /\ ~a.mom /\ a.dim > 0) =>
           out.kind = "error" /\ out.err = "AttributeError"
    /\ (op \in SpatialMembers /\ a.dim = 2) =>
           out.kind = "error" /\ out.err = "AttributeError"
    /\ (op \in LorentzMembers /\ a.dim \in {2, 3}) =>
           out.kind = "error" /\ out.err = "AttributeError"
    /\ (op = "cross" /\ a.dim = 2) =>
           out.kind = "error" /\ out.err = "AttributeError"
    /\ (out.kind = "error") => (out.vec = NoVec /\ out.val = NoOut.val)

\* mass is asked of a geometric 4D vector, which has tau
C18_Witness ==
    /\ op = "mass" /\ ~a.mom /\ a.dim = 4
    /\ out.kind = "error" /\ out.err = "AttributeError"

C20Case ==
    /\ op = "scale" /\ a.dim > 0 /\ a.az = "RhoPhi"
    /\ IsFin(a.f.rho) /\ IsFin(a.f.phi)

\* the claim as written: rho is multiplied by the factor and phi is unchanged
C20_Original ==
    C20Case =>
        /\ out.kind = "vector" /\ out.vec.az = "RhoPhi"
        /\ out.vec.f.rho = Fin(a.f.rho.v * kw.factor.v)
        /\ out.vec.f.phi = a.f.phi

\* C20: scale(factor) on a vector with azimuthal kind RhoPhi returns a vector
\* of kind RhoPhi whose rho is the original rho times |factor|; phi is
\* unchanged for a positive factor and turned by half a turn for a negative
\* one, so that rho stays non-negative.
C20_ScaleKeepsRhoPhi ==
    C20Case =>
        /\ out.kind = "vector" /\ out.vec.az = "RhoPhi"
        /\ out.vec.dim = a.dim /\ out.vec.lo = a.lo /\ out.vec.te = a.te
        /\ out.vec.f.rho = Fin(a.f.rho.v * Abs(kw.factor.v))
        /\ out.vec.f.rho.v >= 0
        /\ kw.factor.v > 0 => out.vec.f.phi = a.f.phi
        /\ kw.factor.v < 0 =>
               /\ Cos5(out.vec.f.phi.v) = -Cos5(a.f.phi.v)
               /\ Sin5(out.vec.f.phi.v) = -Sin5(a.f.phi.v)

\* (rho = 5, phi) scaled by 10 is (rho = 50, phi)
C20_Witness ==
    /\ C20Case /\ a.dim = 2 /\ a.f.rho = Fin(5) /\ kw.factor = Fin(10)
    /\ out.kind = "vector" /\ out.vec.f.rho = Fin(50) /\ out.vec.f.phi = a.f.phi


\* the projection class the mixins registered for each dimension
C17Projection(d) ==
    IF d = 2 THEN "TwoVector" ELSE IF d = 3 THEN "ThreeVector" ELSE "LorentzVector"

C17Binary == {"add", "subtract", "np.add", "np.subtract"}

C17Case ==
    /\ op \in C17Binary /\ out.kind = "vector"
    /\ with_name.a \in {"TwoVector", "ThreeVector", "LorentzVector"}
    /\ with_name.b \in {"TwoVector", "ThreeVector", "LorentzVector"}

\* C17: when both operands of a binary operation are arrays of mixin
\* subclasses that registered ProjectionClass2D/3D/4D and MomentumClass, the
\* result is an instance of the projection class registered for the result's
\* dimension (LorentzVector + LorentzVector is a LorentzVector, to_2D() +
\* to_2D() a TwoVector) and never one of the library's own classes.
C17_SubclassPreserved ==
    C17Case =>
        /\ with_name.out = C17Projection(out.vec.dim)
        /\ with_name.out \notin {"Vector2D", "Vector3D", "Vector4D",
                                 "Momentum2D", "Momentum3D", "Momentum4D"}

\* C17 holds of the methods, and of the operators while no copy_behaviors
\* call has been made
C17_SubclassPreservedUncopied ==
    (C17Case /\ (op \in {"add", "subtract"} \/ behavior.classes = InitialBehavior.classes)) =>
        with_name.out = C17Projection(out.vec.dim)

C17_Witness ==
    /\ C17Case /\ op = "np.add"
    /\ with_name.a = "LorentzVector" /\ with_name.b = "LorentzVector"
    /\ behavior.classes = InitialBehavior.classes
    /\ with_name.out = "LorentzVector"


\* C21: abs(v) is rho for every 2D vector, mag (the spatial magnitude, with
\* no temporal part) for every 3D vector and tau for every 4D vector,
\* whatever the coordinate kinds and the flavor.
C21_AbsByDimension ==
    op = "abs" =>
        /\ out.kind = "number"
        /\ a.dim = 2 => out.val = Coord(a, "rho")
        /\ a.dim = 3 => out.val = FSqrt(FAdd(CoordRho2(a), FMul(Coord(a, "z"), Coord(a, "z"))))
        /\ a.dim = 4 => out.val = Coord(a, "tau")

\* abs of a timelike 4D vector storing t: tau, which is neither t nor mag
C21_Witness ==
    /\ op = "abs" /\ a.dim = 4 /\ a.te = "T" /\ a.az = "XY"
    /\ out.kind = "number" /\ out.val = Fin(3)
    /\ a.f.t = Fin(5) /\ CoordMag(a) = Fin(4)


RECURSIVE C22Fold(_, _)
\* the binary add folded over the collection, from the left
C22Fold(seq, acc) ==
    IF Len(seq) = 0 THEN acc
    ELSE C22Fold(SubSeq(seq, 2, Len(seq)), Add(acc, seq[1]))

\* the smallest dimension among the start value and the elements
C22MinDim ==
    CHOOSE d \in 2..4 :
        /\ d \in {a.dim} \cup {vs[i].dim : i \in DOMAIN vs}
        /\ \A e \in {a.dim} \cup {vs[i].dim : i \in DOMAIN vs} : d <= e

C23Case ==
    /\ op = "cross" /\ a.dim >= 3 /\ b.dim >= 3
    /\ a.az = "XY" /\ a.lo = "Z" /\ b.az = "XY" /\ b.lo = "Z"
    /\ a.f.x = Fin(1) /\ a.f.y = Fin(2) /\ a.f.z = Fin(3)
    /\ b.f.x = Fin(1) /\ b.f.y = Fin(0) /\ b.f.z = Fin(2)

\* the claim as written: the product is (x=4, y=-1, z=-2)
C23_Original ==
    C23Case =>
        /\ out.kind = "vector"
        /\ out.vec.f = [x |-> Fin(4), y |-> Fin(-1), z |-> Fin(-2)]

\* C23: for v = (x=1, y=2, z=3) and w = (x=1, y=0, z=2), v.cross(w) is the
\* 3D vector (x=4, y=1, z=-2), with no temporal component.
C23_CrossExample ==
    C23Case =>
        /\ out.kind = "vector"
        /\ out.vec.dim = 3 /\ out.vec.te = "None"
        /\ out.vec.f = [x |-> Fin(4), y |-> Fin(1), z |-> Fin(-2)]

C23_Witness ==
    /\ C23Case /\ a.dim = 3 /\ b.dim = 3
    /\ out.kind = "vector" /\ out.vec.f.y = Fin(1)


C24Finite == a.dim = 4 /\ \A g \in DOMAIN a.f : IsFin(a.f[g])

\* C24: for every 4D vector with finite components, beta = mag / t satisfies
\* 0 <= beta < 1 (beta is held in thousandths).
C24_BetaInUnitInterval ==
    (op = "beta" /\ C24Finite) =>
        /\ out.kind = "number" /\ IsFin(out.val)
        /\ 0 <= out.val.v /\ out.val.v < 1000

\* the spacelike vector (x=10, y=0, z=0, t=1) has beta = 10
C24_Witness ==
    /\ op = "beta" /\ C24Finite /\ a.az = "XY" /\ a.lo = "Z" /\ a.te = "T"
    /\ a.f.x = Fin(10) /\ a.f.y = Fin(0) /\ a.f.z = Fin(0) /\ a.f.t = Fin(1)
    /\ out.kind = "number" /\ out.val = Fin(10000)


\* the fields of v within its first d dimensions
C25Lower(v, d) ==
    {g \in DOMAIN v.f :
        \/ g \in {"x", "y", "rho", "phi"}
        \/ d >= 3 /\ g \in {"z", "theta", "eta"}}

\* the vectors of the dimension of v that agree with v within the first d
\* dimensions, whatever their longitudinal and temporal slices beyond d hold
C25Variants(v, d) ==
    {w \in OneOperands :
        /\ w.dim = v.dim /\ w.mom = v.mom
        /\ w.az = v.az /\ (d >= 3 => w.lo = v.lo)
        /\ \A g \in C25Lower(v, d) : w.f[g] = v.f[g]}

\* the result of the run of operation o on v1 and v2
C25Run(o, v1, v2) ==
    CASE o = "add" -> VecOut(Add(v1, v2))
      [] o = "subtract" -> VecOut(Subtract(v1, v2))
      [] o = "dot" -> NumOut(Dot(v1, v2), ComputeModuleOf(v1, v2, FALSE))
      [] o = "equal" -> BoolOut(Equal(v1, v2), ComputeModuleOf(v1, v2, FALSE))
      [] o = "not_equal" -> BoolOut(NotEqual(v1, v2), ComputeModuleOf(v1, v2, FALSE))
      [] o = "isclose" -> BoolOut(IsClose(v1, v2), ComputeModuleOf(v1, v2, FALSE))

C25Demoting == {"add", "subtract", "dot", "equal", "not_equal", "isclose"}

C26Kinds(v) == <<v.az, v.lo, v.te>>

\* the Cartesian kinds of dimension d
C26Cartesian(d) ==
    <<"XY", IF d >= 3 THEN "Z" ELSE "None", IF d >= 4 THEN "T" ELSE "None">>

C26Case ==
    /\ op \in {"add", "subtract"} /\ a.dim = b.dim /\ a.dim > 0
    /\ out.kind = "vector"

\* the claim as written: where the kinds differ, the result has A's kinds
C26_Original ==
    (C26Case /\ C26Kinds(a) # C26Kinds(b)) => C26Kinds(out.vec) = C26Kinds(a)

\* C26: when operands A and B of a binary arithmetic operation have the same
\* dimension but different coordinate kinds, the result takes the Cartesian
\* kinds of that dimension, whichever operand comes first; it has operand
\* A's kinds when they are B's kinds as well.
C26_DifferingKindsGiveCartesian ==
    C26Case =>
        /\ out.vec.dim = a.dim
        /\ C26Kinds(a) # C26Kinds(b) => C26Kinds(out.vec) = C26Cartesian(a.dim)
        /\ C26Kinds(a) = C26Kinds(b) => C26Kinds(out.vec) = C26Kinds(a)

\* a rho-phi-eta-tau vector plus an x-y-z-t vector is stored as x, y, z, t
C26_Witness ==
    /\ C26Case /\ op = "add" /\ a.dim = 4
    /\ C26Kinds(a) = <<"RhoPhi", "Eta", "Tau">> /\ C26Kinds(b) = <<"XY", "Z", "T">>
    /\ C26Kinds(out.vec) = <<"XY", "Z", "T">>

C27Case ==
    /\ op \in {"add", "subtract"} /\ a.dim = b.dim /\ a.dim > 0
    /\ a.az # b.az

\* C27: a computed result is stored in Cartesian kinds (XY, and Z and T
\* where present): the sum or difference of two vectors of the same
\* dimension whose azimuthal kinds differ is XY-stored, in either order, and
\* (x=2, y=1) + (rho=3, phi=0) is stored as (x=5, y=1).
C27_ComputedResultCartesian ==
    /\ C27Case =>
           /\ out.kind = "vector"
           /\ out.vec.az = "XY" /\ DOMAIN out.vec.f \cap {"rho", "phi"} = {}
           /\ out.vec.lo \in {"Z", "None"} /\ out.vec.te \in {"T", "None"}
    /\ (op = "add" /\ a = Obj([x |-> Fin(2), y |-> Fin(1)]).vec
                   /\ b = Obj([rho |-> Fin(3), phi |-> Fin(0)]).vec) =>
           out.vec.f = [x |-> Fin(5), y |-> Fin(1)]

\* the documentation's example, the other way round: still x = 5, y = 1
C27_Witness ==
    /\ op = "add"
    /\ a = Obj([rho |-> Fin(3), phi |-> Fin(0)]).vec
    /\ b = Obj([x |-> Fin(2), y |-> Fin(1)]).vec
    /\ out.kind = "vector" /\ out.vec.az = "XY"
    /\ out.vec.f = [x |-> Fin(5), y |-> Fin(1)]


====
